---- MODULE Spec2Model ----
(***************************************************************************)
(* Model of tugboat: the bounded max-window (src/src/max_sliding_window.rs), *)
(* the modal input dispatcher (src/src/app.rs, driven by the loop of        *)
(* src/src/ui.rs) and the log producer (src/src/docker.rs).                 *)
(*                                                                         *)
(* Strings are sequences of one-character strings, so that push, pop and   *)
(* contains are computed and not assumed.  The numeric limits of the       *)
(* program (MAX_LOG_LINES, CLEANUP_THRESHOLD, the u16 range) are scaled    *)
(* down under their own names; every formula is stated through the names.  *)
(***************************************************************************)
EXTENDS Integers, Sequences, FiniteSets, TLC

\* ------------------------------------------------------------------------
\* Bounds of the model
\* ------------------------------------------------------------------------
MaxCap == 3          \* window capacities 1..MaxCap
MaxVal == 3          \* sample values 0..MaxVal (duplicates happen)
MaxAdds == 5         \* add calls between two clears

MAX_LOG_LINES == 4       \* docker.rs:13 (1000), scaled
CLEANUP_THRESHOLD == 2   \* docker.rs:14 (100), scaled
U16_MAX == 15            \* the largest u16 (65535), scaled
TAIL_ROWS == 2           \* rows G keeps in view, app.rs:116 (15), scaled
MaxTasks == 2            \* producer tasks that exist at one time
MaxBuffer == 2           \* chunks a producer buffers between two flushes
MaxErrors == 1           \* error lines that logs holds at one time
MaxQuery == 2            \* longest search_query typed
MaxSelected == 2         \* largest selected the table's Scroll down is followed to
MaxFound == 3            \* lines after the first that a searched log starts with
MaxStats == 2            \* samples a stats task delivers

\* Program constants
H_STEP == 10             \* horizontal pan, app.rs:101

Min(a, b) == IF a <= b THEN a ELSE b
Max(a, b) == IF a >= b THEN a ELSE b

\* Option<T>: None is the empty sequence, Some(x) the one-element sequence
None == <<>>
Some(x) == <<x>>

VARIABLES
    win,             \* the MaxSlidingWindow: [data, max_queue, capacity]
    hist,            \* ghost: the pairs added since construction or the last clear
    app,             \* the AppState behind the RwLock
    tasks,           \* the log producer tasks of stream_logs, by task id
    running,         \* the loop of start_ui has not been left
    panicked,        \* an index out of bounds has unwound start_ui
    sync,            \* the RwLock around AppState and where each task stands at it
    res,             \* the Resources view: stats_task, cpu_data, mem_data, stats tasks
    last             \* ghost: what the last step was

winVars == <<win, hist>>
appVars == <<app, tasks, running, panicked, last, res, sync>>
vars == <<win, hist, app, tasks, running, panicked, last, res, sync>>

\* ------------------------------------------------------------------------
\* MaxSlidingWindow (src/src/max_sliding_window.rs)
\* ------------------------------------------------------------------------
Last(s) == s[Len(s)]
Front(s) == SubSeq(s, 1, Len(s) - 1)

\* MaxSlidingWindow::new(capacity)
new(capacity) == [data |-> <<>>, max_queue |-> <<>>, capacity |-> capacity]

\* the first loop of add with <= for <: equal copies are popped too
RECURSIVE pop_smaller_or_equal(_, _)
pop_smaller_or_equal(q, v) ==
    IF q # <<>> /\ Last(q) <= v THEN pop_smaller_or_equal(Front(q), v) ELSE q

\* the first loop of add: pop the back of max_queue while it is < v
RECURSIVE pop_smaller(_, _)
pop_smaller(q, v) ==
    IF q # <<>> /\ Last(q) < v THEN pop_smaller(Front(q), v) ELSE q

\* a remove that takes the newest pair (pop_back for pop_front)
remove_newest(w) ==
    IF w.data # <<>>
    THEN LET back == Last(w.data) IN
         [w EXCEPT !.data = Front(w.data),
                   !.max_queue = IF w.max_queue # <<>> /\ back[2] = Head(w.max_queue)
                                 THEN Tail(w.max_queue)
                                 ELSE w.max_queue]
    ELSE w

\* a remove that pops the front of max_queue whatever the evicted value is
remove_pops_always(w) ==
    IF w.data # <<>>
    THEN [w EXCEPT !.data = Tail(w.data),
                   !.max_queue = IF w.max_queue # <<>> THEN Tail(w.max_queue)
                                 ELSE w.max_queue]
    ELSE w

\* MaxSlidingWindow::remove
remove(w) ==
    IF w.data # <<>>
    THEN LET front == Head(w.data) IN
         [w EXCEPT !.data = Tail(w.data),
                   !.max_queue = IF w.max_queue # <<>> /\ front[2] = Head(w.max_queue)
                                 THEN Tail(w.max_queue)
                                 ELSE w.max_queue]
    ELSE w

\* the second loop of add with >= capacity + 2: one pair too many is kept
RECURSIVE evict_late(_)
evict_late(w) == IF Len(w.data) > w.capacity + 1 THEN evict_late(remove(w)) ELSE w

\* the second loop of add: remove while data is longer than capacity
RECURSIVE evict(_)
evict(w) == IF Len(w.data) > w.capacity THEN evict(remove(w)) ELSE w

\* MaxSlidingWindow::add
add(w, x) ==
    evict([w EXCEPT !.data = Append(w.data, x),
                    !.max_queue = Append(pop_smaller(w.max_queue, x[2]), x[2])])

\* MaxSlidingWindow::get_max
get_max(w) == IF w.max_queue = <<>> THEN None ELSE Some(Head(w.max_queue))

\* a clear that forgets max_queue
clear_keeps_max_queue(w) == [w EXCEPT !.data = <<>>]

\* MaxSlidingWindow::clear
clear(w) == [w EXCEPT !.data = <<>>, !.max_queue = <<>>]

\* ------------------------------------------------------------------------
\* Strings, keys and integer arithmetic
\* ------------------------------------------------------------------------
\* "Loading logs..." (app.rs:84)
LOADING == <<"L","o","a","d","i","n","g"," ","l","o","g","s",".",".",".">>
\* "Error streaming logs: " (docker.rs:95)
ERROR_PREFIX == <<"E","r","r","o","r"," ","s","t","r","e","a","m","i","n","g",
                  " ","l","o","g","s",":"," ">>

\* str::contains
contains(line, query) ==
    \E i \in 0..(Len(line) - Len(query)) : SubSeq(line, i + 1, i + Len(query)) = query

\* KeyCode
Esc == <<"Esc">>
Enter == <<"Enter">>
Up == <<"Up">>
Down == <<"Down">>
Left == <<"Left">>
Right == <<"Right">>
Backspace == <<"Backspace">>
Tab == <<"Tab">>
Char(c) == <<"Char", c>>
IsChar(key) == key[1] = "Char"

\* u16::saturating_add, u16::saturating_sub, usize::saturating_sub, `as u16`
saturating_add(x, d) == IF x + d > U16_MAX THEN U16_MAX ELSE x + d
saturating_sub(x, d) == IF x < d THEN 0 ELSE x - d
as_u16(n) == n % (U16_MAX + 1)

\* ------------------------------------------------------------------------
\* AppState and AppState::handle_input (src/src/app.rs)
\* ------------------------------------------------------------------------
menu_items == <<"Show Logs", "Restart">>

\* AppState::default()
AppStateDefault ==
    [container_data |-> <<>>, selected |-> 0, mode |-> "Normal", menu_selected |-> 0,
     logs |-> <<>>, horizontal_scroll |-> 0, vertical_scroll |-> 0, log_task |-> None,
     user_scrolled |-> FALSE, visible_height |-> 0, search_query |-> <<>>,
     search_matches |-> <<>>, current_match_index |-> None]

\* what handle_input leaves: the state, the Action returned, the handle aborted
Ret(a, action, aborted) == [app |-> a, action |-> action, aborted |-> aborted]
Continue(a) == Ret(a, "Continue", None)

\* the same with the indices counted from 1
RECURSIVE matching_from_one(_, _, _)
matching_from_one(lines, query, i) ==
    IF i > Len(lines) THEN <<>>
    ELSE (IF contains(lines[i], query) THEN <<i>> ELSE <<>>)
         \o matching_from_one(lines, query, i + 1)

\* the indices (from 0) of the lines that contain the query, ascending
RECURSIVE matching(_, _, _)
matching(lines, query, i) ==
    IF i > Len(lines) THEN <<>>
    ELSE (IF contains(lines[i], query) THEN <<i - 1>> ELSE <<>>)
         \o matching(lines, query, i + 1)

normal_input(a, key) ==
    IF key = Char("q") THEN Ret(a, "Exit", None)
    ELSE IF key \in {Down, Char("j")} THEN
        Continue(IF a.selected + 1 < Len(a.container_data)
                 THEN [a EXCEPT !.selected = @ + 1] ELSE a)
    ELSE IF key \in {Up, Char("k")} THEN
        Continue(IF a.selected > 0 THEN [a EXCEPT !.selected = @ - 1] ELSE a)
    ELSE IF key = Enter THEN
        Continue([a EXCEPT !.mode = "ContextMenu", !.menu_selected = 0])
    ELSE Continue(a)

\* the ContextMenu arm with a Down that does not wrap
context_menu_input_down_unwrapped(a, key) ==
    IF key \in {Esc, Char("q")} THEN Continue([a EXCEPT !.mode = "Normal"])
    ELSE IF key = Down THEN Continue([a EXCEPT !.menu_selected = @ + 1])
    ELSE IF key = Up THEN
        Continue(IF a.menu_selected > 0
                 THEN [a EXCEPT !.menu_selected = @ - 1]
                 ELSE [a EXCEPT !.menu_selected = Len(menu_items) - 1])
    ELSE IF key = Enter THEN
        Continue(IF a.menu_selected = 0
                 THEN [a EXCEPT !.mode = "Logs", !.logs = <<LOADING>>]
                 ELSE IF a.menu_selected = 1
                 THEN [a EXCEPT !.mode = "Normal"]
                 ELSE a)
    ELSE Continue(a)

context_menu_input(a, key) ==
    IF key \in {Esc, Char("q")} THEN Continue([a EXCEPT !.mode = "Normal"])
    ELSE IF key = Down THEN
        Continue(IF a.menu_selected + 1 < Len(menu_items)
                 THEN [a EXCEPT !.menu_selected = @ + 1]
                 ELSE [a EXCEPT !.menu_selected = 0])
    ELSE IF key = Up THEN
        Continue(IF a.menu_selected > 0
                 THEN [a EXCEPT !.menu_selected = @ - 1]
                 ELSE [a EXCEPT !.menu_selected = Len(menu_items) - 1])
    ELSE IF key = Enter THEN
        Continue(IF a.menu_selected = 0
                 THEN [a EXCEPT !.mode = "Logs", !.logs = <<LOADING>>]
                 ELSE IF a.menu_selected = 1
                 THEN [a EXCEPT !.mode = "Normal"]
                 ELSE a)
    ELSE Continue(a)

\* the Logs arm with a close that neither takes nor aborts the handle
logs_input_keeps_handle(a, key) ==
    IF key \in {Esc, Enter, Char("q")} THEN
        Continue([a EXCEPT !.mode = "Normal"])
    ELSE IF key \in {Left, Char("h")} THEN
        Continue([a EXCEPT !.horizontal_scroll = saturating_sub(@, H_STEP)])
    ELSE IF key \in {Right, Char("l")} THEN
        Continue([a EXCEPT !.horizontal_scroll = saturating_add(@, H_STEP)])
    ELSE IF key \in {Down, Char("j")} THEN
        Continue([a EXCEPT !.user_scrolled = TRUE,
                           !.vertical_scroll = saturating_add(@, 1)])
    ELSE IF key \in {Up, Char("k")} THEN
        Continue([a EXCEPT !.user_scrolled = TRUE,
                           !.vertical_scroll = saturating_sub(@, 1)])
    ELSE IF key = Char("G") THEN
        Continue([a EXCEPT !.user_scrolled = FALSE,
                           !.vertical_scroll = as_u16(saturating_sub(Len(a.logs), TAIL_ROWS))])
    ELSE IF key = Char("/") THEN
        Continue([a EXCEPT !.mode = "Search", !.search_query = <<>>])
    ELSE IF key = Char("n") THEN
        Continue(IF a.current_match_index # None /\ a.search_matches # <<>>
                 THEN LET i == (a.current_match_index[1] + 1) % Len(a.search_matches) IN
                      [a EXCEPT !.current_match_index = Some(i),
                                !.vertical_scroll = as_u16(a.search_matches[i + 1])]
                 ELSE a)
    ELSE IF key = Char("N") THEN
        Continue(IF a.current_match_index # None /\ a.search_matches # <<>>
                 THEN LET len == Len(a.search_matches)
                          i == (a.current_match_index[1] + len - 1) % len IN
                      [a EXCEPT !.current_match_index = Some(i),
                                !.vertical_scroll = as_u16(a.search_matches[i + 1])]
                 ELSE a)
    ELSE Continue(a)

\* the Logs arm with a plain + for saturating_add in the pan to the right
logs_input_right_unsaturated(a, key) ==
    IF key \in {Esc, Enter, Char("q")} THEN
        Ret([a EXCEPT !.log_task = None, !.mode = "Normal"], "Continue", a.log_task)
    ELSE IF key \in {Left, Char("h")} THEN
        Continue([a EXCEPT !.horizontal_scroll = saturating_sub(@, H_STEP)])
    ELSE IF key \in {Right, Char("l")} THEN
        Continue([a EXCEPT !.horizontal_scroll = @ + H_STEP])
    ELSE IF key \in {Down, Char("j")} THEN
        Continue([a EXCEPT !.user_scrolled = TRUE,
                           !.vertical_scroll = saturating_add(@, 1)])
    ELSE IF key \in {Up, Char("k")} THEN
        Continue([a EXCEPT !.user_scrolled = TRUE,
                           !.vertical_scroll = saturating_sub(@, 1)])
    ELSE IF key = Char("G") THEN
        Continue([a EXCEPT !.user_scrolled = FALSE,
                           !.vertical_scroll = as_u16(saturating_sub(Len(a.logs), TAIL_ROWS))])
    ELSE IF key = Char("/") THEN
        Continue([a EXCEPT !.mode = "Search", !.search_query = <<>>])
    ELSE IF key = Char("n") THEN
        Continue(IF a.current_match_index # None /\ a.search_matches # <<>>
                 THEN LET i == (a.current_match_index[1] + 1) % Len(a.search_matches) IN
                      [a EXCEPT !.current_match_index = Some(i),
                                !.vertical_scroll = as_u16(a.search_matches[i + 1])]
                 ELSE a)
    ELSE IF key = Char("N") THEN
        Continue(IF a.current_match_index # None /\ a.search_matches # <<>>
                 THEN LET len == Len(a.search_matches)
                          i == (a.current_match_index[1] + len - 1) % len IN
                      [a EXCEPT !.current_match_index = Some(i),
                                !.vertical_scroll = as_u16(a.search_matches[i + 1])]
                 ELSE a)
    ELSE Continue(a)

logs_input(a, key) ==
    IF key \in {Esc, Enter, Char("q")} THEN
        Ret([a EXCEPT !.log_task = None, !.mode = "Normal"], "Continue", a.log_task)
    ELSE IF key \in {Left, Char("h")} THEN
        Continue([a EXCEPT !.horizontal_scroll = saturating_sub(@, H_STEP)])
    ELSE IF key \in {Right, Char("l")} THEN
        Continue([a EXCEPT !.horizontal_scroll = saturating_add(@, H_STEP)])
    ELSE IF key \in {Down, Char("j")} THEN
        Continue([a EXCEPT !.user_scrolled = TRUE,
                           !.vertical_scroll = saturating_add(@, 1)])
    ELSE IF key \in {Up, Char("k")} THEN
        Continue([a EXCEPT !.user_scrolled = TRUE,
                           !.vertical_scroll = saturating_sub(@, 1)])
    ELSE IF key = Char("G") THEN
        Continue([a EXCEPT !.user_scrolled = FALSE,
                           !.vertical_scroll = as_u16(saturating_sub(Len(a.logs), TAIL_ROWS))])
    ELSE IF key = Char("/") THEN
        Continue([a EXCEPT !.mode = "Search", !.search_query = <<>>])
    ELSE IF key = Char("n") THEN
        Continue(IF a.current_match_index # None /\ a.search_matches # <<>>
                 THEN LET i == (a.current_match_index[1] + 1) % Len(a.search_matches) IN
                      [a EXCEPT !.current_match_index = Some(i),
                                !.vertical_scroll = as_u16(a.search_matches[i + 1])]
                 ELSE a)
    ELSE IF key = Char("N") THEN
        Continue(IF a.current_match_index # None /\ a.search_matches # <<>>
                 THEN LET len == Len(a.search_matches)
                          i == (a.current_match_index[1] + len - 1) % len IN
                      [a EXCEPT !.current_match_index = Some(i),
                                !.vertical_scroll = as_u16(a.search_matches[i + 1])]
                 ELSE a)
    ELSE Continue(a)

\* the Search arm with q taken as a close key before the text arm
search_input_q_closes(a, key) ==
    IF key \in {Esc, Char("q")} THEN Continue([a EXCEPT !.mode = "Logs"])
    ELSE IF key = Enter THEN
        LET found == matching(a.logs, a.search_query, 1) IN
        Continue([a EXCEPT !.search_matches = found,
                           !.current_match_index = IF found = <<>> THEN None ELSE Some(0),
                           !.vertical_scroll = IF found = <<>> THEN @ ELSE as_u16(found[1]),
                           !.mode = "Logs"])
    ELSE IF key = Backspace THEN
        Continue([a EXCEPT !.search_query = IF @ = <<>> THEN @ ELSE Front(@)])
    ELSE IF IsChar(key) THEN
        Continue([a EXCEPT !.search_query = Append(@, key[2])])
    ELSE Continue(a)

search_input(a, key) ==
    IF key = Esc THEN Continue([a EXCEPT !.mode = "Logs"])
    ELSE IF key = Enter THEN
        LET found == matching(a.logs, a.search_query, 1) IN
        Continue([a EXCEPT !.search_matches = found,
                           !.current_match_index = IF found = <<>> THEN None ELSE Some(0),
                           !.vertical_scroll = IF found = <<>> THEN @ ELSE as_u16(found[1]),
                           !.mode = "Logs"])
    ELSE IF key = Backspace THEN
        Continue([a EXCEPT !.search_query = IF @ = <<>> THEN @ ELSE Front(@)])
    ELSE IF IsChar(key) THEN
        Continue([a EXCEPT !.search_query = Append(@, key[2])])
    ELSE Continue(a)

\* handle_input with a close of the Logs view that also clears user_scrolled
handle_input_close_clears_flag(a, key) ==
    CASE a.mode = "Normal" -> normal_input(a, key)
      [] a.mode = "ContextMenu" -> context_menu_input(a, key)
      [] a.mode = "Logs" ->
           LET r == logs_input(a, key) IN
           IF r.app.mode = "Normal" THEN [r EXCEPT !.app.user_scrolled = FALSE] ELSE r
      [] a.mode = "Search" -> search_input(a, key)

\* handle_input with N doing what n does
handle_input_prev_is_next(a, key) ==
    CASE a.mode = "Normal" -> normal_input(a, key)
      [] a.mode = "ContextMenu" -> context_menu_input(a, key)
      [] a.mode = "Logs" -> logs_input(a, IF key = Char("N") THEN Char("n") ELSE key)
      [] a.mode = "Search" -> search_input(a, key)

\* handle_input with an n that does not wrap at the last match
handle_input_next_unwrapped(a, key) ==
    CASE a.mode = "Normal" -> normal_input(a, key)
      [] a.mode = "ContextMenu" -> context_menu_input(a, key)
      [] a.mode = "Logs" ->
           IF key = Char("n") /\ a.current_match_index # None /\ a.search_matches # <<>>
           THEN Continue([a EXCEPT !.current_match_index = Some(@[1] + 1)])
           ELSE logs_input(a, key)
      [] a.mode = "Search" -> search_input(a, key)

\* AppState::handle_input
handle_input(a, key) ==
    CASE a.mode = "Normal" -> normal_input(a, key)
      [] a.mode = "ContextMenu" -> context_menu_input(a, key)
      [] a.mode = "Logs" -> logs_input(a, key)
      [] a.mode = "Search" -> search_input(a, key)

\* ------------------------------------------------------------------------
\* The keybinding table: matches_keys and default_keybindings
\* (src/src/keybindings.rs)
\* ------------------------------------------------------------------------
Exact(key) == [kind |-> "Exact", key |-> key]
\* MatchFn(|k| matches!(k, KeyCode::Char(_)))
MatchChar == [kind |-> "MatchFn", key |-> Char("_")]

matches_keys(k, matcher) ==
    IF matcher.kind = "Exact" THEN k = matcher.key ELSE IsChar(k)

\* the matchers and descriptions of the table, in its order
default_keybindings ==
    << [matchers |-> <<Exact(Esc), Exact(Char("q"))>>, description |-> "Quit / Close dialog"],
       [matchers |-> <<Exact(Up), Exact(Char("k"))>>, description |-> "Scroll up"],
       [matchers |-> <<Exact(Down), Exact(Char("j"))>>, description |-> "Scroll down"],
       [matchers |-> <<Exact(Left), Exact(Char("h"))>>, description |-> "Scroll left"],
       [matchers |-> <<Exact(Right), Exact(Char("l"))>>, description |-> "Scroll right"],
       [matchers |-> <<Exact(Enter)>>, description |-> "Open / confirm"],
       [matchers |-> <<Exact(Backspace)>>, description |-> "Delete character in search"],
       [matchers |-> <<Exact(Char("G"))>>, description |-> "Jump to latest log entry"],
       [matchers |-> <<Exact(Char("/"))>>, description |-> "Open search"],
       [matchers |-> <<Exact(Char("n"))>>, description |-> "Jump to next match"],
       [matchers |-> <<Exact(Char("N"))>>, description |-> "Jump to previous match"],
       [matchers |-> <<MatchChar>>, description |-> "Raw input for search"] >>

\* the action closures of the table, by description
quit_action(a) ==
    CASE a.mode = "Normal" -> Ret(a, "Exit", None)
      [] a.mode = "Logs" ->
           Ret([a EXCEPT !.log_task = None, !.mode = "Normal"], "Continue", a.log_task)
      [] a.mode = "Search" -> Continue([a EXCEPT !.mode = "Logs"])
      [] a.mode = "ContextMenu" -> Continue([a EXCEPT !.mode = "Normal"])

scroll_up_action(a) ==
    CASE a.mode = "Normal" -> Continue([a EXCEPT !.selected = saturating_sub(@, 1)])
      [] a.mode = "Logs" ->
           Continue([a EXCEPT !.user_scrolled = TRUE,
                              !.vertical_scroll = saturating_sub(@, 1)])
      [] a.mode = "ContextMenu" ->
           Continue(IF a.menu_selected > 0
                    THEN [a EXCEPT !.menu_selected = @ - 1]
                    ELSE [a EXCEPT !.menu_selected = Len(menu_items) - 1])
      [] OTHER -> Continue(a)

scroll_down_action(a) ==
    CASE a.mode = "Normal" -> Continue([a EXCEPT !.selected = @ + 1])
      [] a.mode = "Logs" ->
           Continue([a EXCEPT !.user_scrolled = TRUE,
                              !.vertical_scroll = saturating_sub(@, 1)])
      [] a.mode = "ContextMenu" ->
           Continue(IF a.menu_selected + 1 < Len(menu_items)
                    THEN [a EXCEPT !.menu_selected = @ + 1]
                    ELSE [a EXCEPT !.menu_selected = 0])
      [] OTHER -> Continue(a)

scroll_left_action(a) ==
    IF a.mode = "Logs"
    THEN Continue([a EXCEPT !.horizontal_scroll = saturating_sub(@, H_STEP)])
    ELSE Continue(a)

scroll_right_action(a) ==
    IF a.mode = "Logs"
    THEN Continue([a EXCEPT !.horizontal_scroll = saturating_add(@, H_STEP)])
    ELSE Continue(a)

confirm_action(a) ==
    CASE a.mode = "Normal" -> Continue([a EXCEPT !.mode = "ContextMenu", !.menu_selected = 0])
      [] a.mode = "ContextMenu" ->
           Continue(IF a.menu_selected = 0
                    THEN [a EXCEPT !.mode = "Logs", !.logs = <<LOADING>>]
                    ELSE IF a.menu_selected = 1
                    THEN [a EXCEPT !.mode = "Normal"]
                    ELSE a)
      [] a.mode = "Search" -> search_input(a, Enter)
      [] OTHER -> Continue(a)

binding_action(description, a, key) ==
    CASE description = "Quit / Close dialog" -> quit_action(a)
      [] description = "Scroll up" -> scroll_up_action(a)
      [] description = "Scroll down" -> scroll_down_action(a)
      [] description = "Scroll left" -> scroll_left_action(a)
      [] description = "Scroll right" -> scroll_right_action(a)
      [] description = "Open / confirm" -> confirm_action(a)
      [] description = "Delete character in search" ->
           IF a.mode = "Search" THEN search_input(a, Backspace) ELSE Continue(a)
      [] description = "Jump to latest log entry" ->
           IF a.mode = "Logs" THEN logs_input(a, Char("G")) ELSE Continue(a)
      [] description = "Open search" ->
           IF a.mode = "Logs" THEN logs_input(a, Char("/")) ELSE Continue(a)
      [] description = "Jump to next match" ->
           IF a.mode = "Logs" THEN logs_input(a, Char("n")) ELSE Continue(a)
      [] description = "Jump to previous match" ->
           IF a.mode = "Logs" THEN logs_input(a, Char("N")) ELSE Continue(a)
      [] description = "Raw input for search" ->
           IF a.mode = "Search" /\ IsChar(key)
           THEN Continue([a EXCEPT !.search_query = Append(@, key[2])])
           ELSE Continue(a)

\* the place of the first binding at or after i that matches the key, or 0
RECURSIVE first_match(_, _)
first_match(key, i) ==
    IF i > Len(default_keybindings) THEN 0
    ELSE IF \E j \in 1..Len(default_keybindings[i].matchers) :
               matches_keys(key, default_keybindings[i].matchers[j])
    THEN i
    ELSE first_match(key, i + 1)

\* the dispatcher over the table: printable keys are text while the search
\* prompt is open, otherwise the first binding that matches acts
table_dispatch(a, key) ==
    IF a.mode = "Search" /\ IsChar(key)
    THEN Continue([a EXCEPT !.search_query = Append(@, key[2])])
    ELSE LET first == first_match(key, 1) IN
         IF first = 0 THEN Continue(a)
         ELSE binding_action(default_keybindings[first].description, a, key)

\* ------------------------------------------------------------------------
\* The log producer: stream_logs and flush_buffer (src/src/docker.rs)
\* ------------------------------------------------------------------------
TaskIds == 1..MaxTasks

\* raw chunks of the engine's stream: bytes, among them ANSI escape sequences
AnsiEscapes == {"ESC[1m", "ESC[0m"}
RawChunks == {<<"a">>, <<"a", "b">>, <<"ESC[1m", "a", "ESC[0m">>}
ErrorMessages == {<<"e">>}

\* strip_ansi_escapes::strip
RECURSIVE strip(_)
strip(chunk) ==
    IF chunk = <<>> THEN <<>>
    ELSE IF Head(chunk) \in AnsiEscapes THEN strip(Tail(chunk))
    ELSE <<Head(chunk)>> \o strip(Tail(chunk))

\* String::from_utf8_lossy: a byte that is no UTF-8 becomes U+FFFD
from_utf8_lossy(bytes) ==
    [i \in 1..Len(bytes) |-> IF bytes[i] = "0xFF" THEN "U+FFFD" ELSE bytes[i]]

\* a task that stream_logs has not spawned; reached is a ghost: the counter
\* of the task has been at CLEANUP_THRESHOLD at least once
NoTask == [st |-> "unused", buffer |-> <<>>, new_lines_since_cleanup |-> 0,
           container_id |-> "none", reached |-> FALSE]

\* a task that has returned or was aborted: its locals are dropped
Ended(st) == [NoTask EXCEPT !.st = st]

\* the task as tokio::spawn starts it (docker.rs:76-78)
stream_logs(container_id) ==
    [st |-> "running", buffer |-> <<>>, new_lines_since_cleanup |-> 0,
     container_id |-> container_id, reached |-> FALSE]

\* flush_buffer with the drain one line short (0..excess - 1)
flush_buffer_drains_short(buffer, a, new_lines_since_cleanup) ==
    IF buffer = <<>>
    THEN [app |-> a, buffer |-> buffer, new_lines_since_cleanup |-> new_lines_since_cleanup]
    ELSE LET appended == a.logs \o buffer
             number_of_log_lines == Len(appended)
             scroll == IF ~a.user_scrolled
                       THEN IF number_of_log_lines > a.visible_height
                            THEN as_u16(number_of_log_lines - a.visible_height)
                            ELSE 0
                       ELSE a.vertical_scroll
             cleanup == new_lines_since_cleanup >= CLEANUP_THRESHOLD
             kept == IF cleanup /\ number_of_log_lines > MAX_LOG_LINES
                     THEN SubSeq(appended, number_of_log_lines - MAX_LOG_LINES,
                                 number_of_log_lines)
                     ELSE appended
         IN [app |-> [a EXCEPT !.logs = kept, !.vertical_scroll = scroll],
             buffer |-> <<>>,
             new_lines_since_cleanup |-> IF cleanup THEN 0 ELSE new_lines_since_cleanup]

\* flush_buffer with > for >= at the threshold
flush_buffer_above_threshold(buffer, a, new_lines_since_cleanup) ==
    IF buffer = <<>>
    THEN [app |-> a, buffer |-> buffer, new_lines_since_cleanup |-> new_lines_since_cleanup]
    ELSE LET appended == a.logs \o buffer
             number_of_log_lines == Len(appended)
             scroll == IF ~a.user_scrolled
                       THEN IF number_of_log_lines > a.visible_height
                            THEN as_u16(number_of_log_lines - a.visible_height)
                            ELSE 0
                       ELSE a.vertical_scroll
             cleanup == new_lines_since_cleanup > CLEANUP_THRESHOLD
             kept == IF cleanup /\ number_of_log_lines > MAX_LOG_LINES
                     THEN SubSeq(appended, number_of_log_lines - MAX_LOG_LINES + 1,
                                 number_of_log_lines)
                     ELSE appended
         IN [app |-> [a EXCEPT !.logs = kept, !.vertical_scroll = scroll],
             buffer |-> <<>>,
             new_lines_since_cleanup |-> IF cleanup THEN 0 ELSE new_lines_since_cleanup]

\* flush_buffer without the test of user_scrolled: it always follows the tail
flush_buffer_always_follows(buffer, a, new_lines_since_cleanup) ==
    IF buffer = <<>>
    THEN [app |-> a, buffer |-> buffer, new_lines_since_cleanup |-> new_lines_since_cleanup]
    ELSE LET appended == a.logs \o buffer
             number_of_log_lines == Len(appended)
             scroll == IF number_of_log_lines > a.visible_height
                       THEN as_u16(number_of_log_lines - a.visible_height)
                       ELSE 0
             cleanup == new_lines_since_cleanup >= CLEANUP_THRESHOLD
             kept == IF cleanup /\ number_of_log_lines > MAX_LOG_LINES
                     THEN SubSeq(appended, number_of_log_lines - MAX_LOG_LINES + 1,
                                 number_of_log_lines)
                     ELSE appended
         IN [app |-> [a EXCEPT !.logs = kept, !.vertical_scroll = scroll],
             buffer |-> <<>>,
             new_lines_since_cleanup |-> IF cleanup THEN 0 ELSE new_lines_since_cleanup]

\* flush_buffer with the drain at the wrong end: it keeps the oldest lines
flush_buffer_drains_newest(buffer, a, new_lines_since_cleanup) ==
    IF buffer = <<>>
    THEN [app |-> a, buffer |-> buffer, new_lines_since_cleanup |-> new_lines_since_cleanup]
    ELSE LET appended == a.logs \o buffer
             number_of_log_lines == Len(appended)
             scroll == IF ~a.user_scrolled
                       THEN IF number_of_log_lines > a.visible_height
                            THEN as_u16(number_of_log_lines - a.visible_height)
                            ELSE 0
                       ELSE a.vertical_scroll
             cleanup == new_lines_since_cleanup >= CLEANUP_THRESHOLD
             kept == IF cleanup /\ number_of_log_lines > MAX_LOG_LINES
                     THEN SubSeq(appended, 1, MAX_LOG_LINES)
                     ELSE appended
         IN [app |-> [a EXCEPT !.logs = kept, !.vertical_scroll = scroll],
             buffer |-> <<>>,
             new_lines_since_cleanup |-> IF cleanup THEN 0 ELSE new_lines_since_cleanup]

\* flush_buffer with a reset of the counter in place of the early return
flush_buffer_empty_resets(buffer, a, new_lines_since_cleanup) ==
    IF buffer = <<>>
    THEN [app |-> a, buffer |-> buffer, new_lines_since_cleanup |-> 0]
    ELSE LET appended == a.logs \o buffer
             number_of_log_lines == Len(appended)
             scroll == IF ~a.user_scrolled
                       THEN IF number_of_log_lines > a.visible_height
                            THEN as_u16(number_of_log_lines - a.visible_height)
                            ELSE 0
                       ELSE a.vertical_scroll
             cleanup == new_lines_since_cleanup >= CLEANUP_THRESHOLD
             kept == IF cleanup /\ number_of_log_lines > MAX_LOG_LINES
                     THEN SubSeq(appended, number_of_log_lines - MAX_LOG_LINES + 1,
                                 number_of_log_lines)
                     ELSE appended
         IN [app |-> [a EXCEPT !.logs = kept, !.vertical_scroll = scroll],
             buffer |-> <<>>,
             new_lines_since_cleanup |-> IF cleanup THEN 0 ELSE new_lines_since_cleanup]

\* flush_buffer: what it leaves of the state, the buffer and the counter
flush_buffer(buffer, a, new_lines_since_cleanup) ==
    IF buffer = <<>>
    THEN [app |-> a, buffer |-> buffer, new_lines_since_cleanup |-> new_lines_since_cleanup]
    ELSE LET appended == a.logs \o buffer
             number_of_log_lines == Len(appended)
             scroll == IF ~a.user_scrolled
                       THEN IF number_of_log_lines > a.visible_height
                            THEN as_u16(number_of_log_lines - a.visible_height)
                            ELSE 0
                       ELSE a.vertical_scroll
             cleanup == new_lines_since_cleanup >= CLEANUP_THRESHOLD
             kept == IF cleanup /\ number_of_log_lines > MAX_LOG_LINES
                     THEN SubSeq(appended, number_of_log_lines - MAX_LOG_LINES + 1,
                                 number_of_log_lines)
                     ELSE appended
         IN [app |-> [a EXCEPT !.logs = kept, !.vertical_scroll = scroll],
             buffer |-> <<>>,
             new_lines_since_cleanup |-> IF cleanup THEN 0 ELSE new_lines_since_cleanup]

\* ghost tag of a flush: nothing appended, appended, appended and trimmed
FlushTag(buffer, a, counter) ==
    IF buffer = <<>> THEN "other"
    ELSE IF counter < CLEANUP_THRESHOLD THEN "flush"
    ELSE IF Len(a.logs) + Len(buffer) > MAX_LOG_LINES THEN "trim" ELSE "cleanup"

Live == running /\ ~panicked

\* the Some(Ok(chunk)) arm without the increment of the counter
RecvOf_uncounted(p, chunks) ==
    /\ Live
    /\ tasks[p].st = "running"
    /\ Len(tasks[p].buffer) < MaxBuffer
    /\ \E chunk \in chunks :
         LET line == from_utf8_lossy(strip(chunk)) IN
         tasks' = [tasks EXCEPT ![p].buffer = Append(@, line)]
    /\ last' = "other"
    /\ UNCHANGED <<sync, res, win, hist, app, running, panicked>>

\* Some(Ok(chunk)): docker.rs:87-92
RecvOf(p, chunks) ==
    /\ Live
    /\ tasks[p].st = "running"
    /\ Len(tasks[p].buffer) < MaxBuffer
    /\ \E chunk \in chunks :
         LET line == from_utf8_lossy(strip(chunk)) IN
         tasks' = [tasks EXCEPT ![p].buffer = Append(@, line),
                                ![p].new_lines_since_cleanup = @ + 1,
                                ![p].reached = @ \/ tasks[p].new_lines_since_cleanup + 1
                                                      >= CLEANUP_THRESHOLD]
    /\ last' = "other"
    /\ UNCHANGED <<sync, res, win, hist, app, running, panicked>>

IsErrorLine(line) ==
    Len(line) >= Len(ERROR_PREFIX) /\ SubSeq(line, 1, Len(ERROR_PREFIX)) = ERROR_PREFIX

\* the error arm with a break after the push: the error ends the task
StreamError_breaks(p) ==
    /\ Live
    /\ tasks[p].st = "running"
    /\ Cardinality({i \in 1..Len(app.logs) : IsErrorLine(app.logs[i])}) < MaxErrors
    /\ \E e \in ErrorMessages :
         app' = [app EXCEPT !.logs = Append(@, ERROR_PREFIX \o e)]
    /\ tasks' = [tasks EXCEPT ![p] = Ended("finished")]
    /\ last' = "error"
    /\ UNCHANGED <<sync, res, win, hist, running, panicked>>

\* Some(Err(e)): docker.rs:93-96
StreamError(p) ==
    /\ Live
    /\ tasks[p].st = "running"
    /\ Cardinality({i \in 1..Len(app.logs) : IsErrorLine(app.logs[i])}) < MaxErrors
    /\ \E e \in ErrorMessages :
         app' = [app EXCEPT !.logs = Append(@, ERROR_PREFIX \o e)]
    /\ last' = "error"
    /\ UNCHANGED <<sync, res, win, hist, tasks, running, panicked>>

\* interval.tick(): docker.rs:103-106
Tick(p) ==
    /\ Live
    /\ tasks[p].st = "running"
    /\ LET f == flush_buffer(tasks[p].buffer, app, tasks[p].new_lines_since_cleanup) IN
       /\ app' = f.app
       /\ tasks' = [tasks EXCEPT ![p].buffer = f.buffer,
                                 ![p].new_lines_since_cleanup = f.new_lines_since_cleanup]
       /\ last' = FlushTag(tasks[p].buffer, app, tasks[p].new_lines_since_cleanup)
    /\ UNCHANGED <<sync, res, win, hist, running, panicked>>

\* the None arm with the break alone: the buffer is dropped with the task
StreamEnd_drops_buffer(p) ==
    /\ Live
    /\ tasks[p].st = "running"
    /\ tasks' = [tasks EXCEPT ![p] = Ended("finished")]
    /\ last' = "other"
    /\ UNCHANGED <<sync, res, win, hist, app, running, panicked>>

\* None, the stream has ended: docker.rs:97-100
StreamEnd(p) ==
    /\ Live
    /\ tasks[p].st = "running"
    /\ LET f == flush_buffer(tasks[p].buffer, app, tasks[p].new_lines_since_cleanup) IN
       /\ app' = f.app
       /\ tasks' = [tasks EXCEPT ![p] = Ended("finished")]
       /\ last' = FlushTag(tasks[p].buffer, app, tasks[p].new_lines_since_cleanup)
    /\ UNCHANGED <<sync, res, win, hist, running, panicked>>

\* ------------------------------------------------------------------------
\* The render/input loop: start_ui (src/src/ui.rs)
\* ------------------------------------------------------------------------
\* what get_container_data returns (ids); a failed call is the empty list
ContainerLists == {<<"id1">>}
\* overlay_area.height - 2 for the terminal sizes drawn
Heights == {3}
CharKeys == {Char(c) : c \in {"q", "j", "k", "h", "l", "G", "/", "?", "n", "N", "a", "b"}}
Keys == {Esc, Enter, Up, Down, Left, Right, Backspace, Tab} \cup CharKeys
\* the keys of the log view: sessions, vertical scroll, search
LogKeys == {Esc, Enter, Up, Down, Char("j"), Char("k"), Char("G"), Char("q")}
\* what is typed into the search prompt with them
TypedKeys == {Esc, Enter, Backspace, Char("a"), Char("b")}

\* JoinHandle::abort on the handle taken out of log_task
abort(ts, handle) ==
    IF handle # None /\ ts[handle[1]].st = "running"
    THEN [ts EXCEPT ![handle[1]] = Ended("aborted")]
    ELSE ts

\* draw_logs_mode indexes container_data[selected] (ui.rs:282)
BadIndex(a) == a.selected >= Len(a.container_data)

\* one pass of the loop with a key event: ui.rs:49-73; the key goes to
\* handle_input (ui.rs:54), or to the keybinding table when `table` is set
DispatchBody(key, container_data, table) ==
    /\ Live
    /\ (app.mode = "Search" /\ IsChar(key)) => Len(app.search_query) < MaxQuery
    /\ LET refreshed == [app EXCEPT !.container_data = container_data]
           r == IF table THEN table_dispatch(refreshed, key) ELSE handle_input(refreshed, key)
           ts == abort(tasks, r.aborted)
       IN /\ r.app.selected <= MaxSelected
          /\ IF r.app.mode = "Logs" /\ r.app.logs = <<LOADING>>
             THEN IF BadIndex(r.app)
                  THEN /\ app' = r.app
                       /\ tasks' = ts
                       /\ panicked' = TRUE
                       /\ running' = running
                  ELSE /\ \E p \in TaskIds : ts[p].st # "running"
                       /\ LET p == CHOOSE q \in TaskIds :
                                     /\ ts[q].st # "running"
                                     /\ \A o \in TaskIds : ts[o].st # "running" => q <= o
                          IN /\ \E height \in Heights :
                                  app' = [r.app EXCEPT !.visible_height = height,
                                                      !.log_task = Some(p)]
                             /\ tasks' = [ts EXCEPT ![p] =
                                            stream_logs(r.app.container_data[r.app.selected + 1])]
                       /\ panicked' = panicked
                       /\ running' = (r.action = "Continue")
             ELSE /\ app' = r.app
                  /\ tasks' = ts
                  /\ panicked' = panicked
                  /\ running' = (r.action = "Continue")
    /\ last' = "other"

Dispatch(key, container_data, table) ==
    /\ DispatchBody(key, container_data, table)
    /\ UNCHANGED <<sync, res, win, hist>>

\* a key event, the key drawn from K, or from S while the search prompt is open
KeyEventOf(K, S, lists, table) ==
    \E key \in (IF app.mode = "Search" THEN S ELSE K), cd \in lists :
        Dispatch(key, cd, table)

KeyEvent == KeyEventOf(LogKeys, TypedKeys, ContainerLists, FALSE)

\* an event that is no key (mouse, resize): only the refresh happens, ui.rs:50-53
OtherEvent ==
    /\ Live
    /\ \E cd \in ContainerLists : app' = [app EXCEPT !.container_data = cd]
    /\ last' = "other"
    /\ UNCHANGED <<sync, res, win, hist, tasks, running, panicked>>

\* the draw under the read lock: ui.rs:39-47
Render ==
    /\ Live
    /\ panicked' = (app.mode \in {"Logs", "Search"} /\ BadIndex(app))
    /\ last' = "other"
    /\ UNCHANGED <<sync, res, win, hist, app, tasks, running>>

\* the state of the Resources view before it is opened: no handle, two empty
\* windows, no stats task spawned, no sample taken
StatIds == 1..MaxStats
ResourcesDefault ==
    [stats_task |-> None, cpu_data |-> new(MaxCap), mem_data |-> new(MaxCap),
     stats |-> [p \in StatIds |-> "unused"], samples |-> 0]

\* where a producer stands: at the select! of its loop, no lock held
Await == [pc |-> "select", n |-> 0, fin |-> FALSE, snap |-> None]

\* the lock free, nobody waiting, the loop before its draw, the tasks at select!
SyncDefault ==
    [writer |-> None, reading |-> FALSE, queue |-> <<>>, loop |-> "render",
     at |-> [p \in TaskIds |-> Await]]

InitApp ==
    /\ res = ResourcesDefault
    /\ sync = SyncDefault
    /\ app = [AppStateDefault EXCEPT !.container_data = <<"id1">>]
    /\ tasks = [p \in TaskIds |-> NoTask]
    /\ running = TRUE
    /\ panicked = FALSE
    /\ last = "other"

Init ==
    /\ InitApp
    /\ win = new(1)
    /\ hist = <<>>

Recv == \E p \in TaskIds : RecvOf(p, {<<"a">>, <<"ESC[1m", "a", "ESC[0m">>})
Errors == \E p \in TaskIds : StreamError(p)
Ticks == \E p \in TaskIds : Tick(p)
Ends == \E p \in TaskIds : StreamEnd(p)

Next == KeyEvent \/ OtherEvent \/ Render \/ Recv \/ Errors \/ Ticks \/ Ends

\* the interval of a running task ticks every 100 ms and select! takes a
\* ready tick in the end (docker.rs:79-84, 103-106)
TickFairness == \A p \in TaskIds : WF_vars(Tick(p))

Spec == Init /\ [][Next]_vars
SpecFair == Spec /\ TickFairness

\* the same loop with every key typed into the search prompt
SearchKeys == {Esc, Enter, Char("/")}
SearchKeyEvent == KeyEventOf(SearchKeys, Keys, ContainerLists, FALSE)
\* the first session's stream delivers lines, a later one is silent
RecvFirst == RecvOf(1, {<<"a">>})
NextSearch == SearchKeyEvent \/ RecvFirst \/ Ticks
SpecSearch == Init /\ [][NextSearch]_vars

\* the same loop with the scroll keys and the search prompt both in reach
LatchKeys == {Esc, Enter, Up, Down, Char("j"), Char("k"), Char("G"), Char("/")}
LatchTyped == {Esc, Enter, Backspace, Char("a")}
LatchKeyEvent == KeyEventOf(LatchKeys, LatchTyped, ContainerLists, FALSE)
NextLatch == LatchKeyEvent \/ RecvFirst \/ Ticks
SpecLatch == Init /\ [][NextLatch]_vars

\* the loop in a Logs session whose log already holds lines, the stream silent:
\* the sentinel first, then up to MaxFound lines of the container
FindLines == {<<"a", "a", "a">>, <<"b", "a", "b">>, <<"a", "b", "c">>}
RECURSIVE SeqsUpTo(_, _)
SeqsUpTo(S, n) ==
    IF n = 0 THEN {<<>>}
    ELSE LET shorter == SeqsUpTo(S, n - 1) IN
         shorter \cup {Append(q, x) : q \in shorter, x \in S}
FindLogs == {<<LOADING>> \o q : q \in SeqsUpTo(FindLines, MaxFound)}
FindKeys == {Esc, Enter, Char("/"), Char("n"), Char("N")}
InitFind ==
    /\ \E lines \in FindLogs :
         app = [AppStateDefault EXCEPT !.container_data = <<"id1">>, !.mode = "Logs",
                                       !.logs = lines, !.log_task = Some(1),
                                       !.visible_height = 3,
                                       !.vertical_scroll = Max(0, Len(lines) - 3)]
    /\ tasks = [p \in TaskIds |-> IF p = 1 THEN stream_logs("id1") ELSE NoTask]
    /\ running = TRUE
    /\ panicked = FALSE
    /\ last = "other"
    /\ res = ResourcesDefault
    /\ sync = SyncDefault
    /\ win = new(1)
    /\ hist = <<>>
FindKeyEvent == KeyEventOf(FindKeys, TypedKeys, ContainerLists, FALSE)
NextFind == FindKeyEvent
SpecFind == InitFind /\ [][NextFind]_vars

\* the loop over whole Logs sessions: opened from the menu, searched, closed
\* by Esc, Enter or q, and opened again
SessionKeys == {Esc, Enter, Char("q"), Char("/")}
SessionTyped == {Esc, Enter, Char("a")}
SessionKeyEvent == KeyEventOf(SessionKeys, SessionTyped, ContainerLists, FALSE)
NextSession == SessionKeyEvent \/ Recv \/ Ticks \/ Ends
SpecSession == Init /\ [][NextSession]_vars

\* Logs sessions with one producer at a time and a stream without errors:
\* every key that is pressed in the Logs view closes it
SingleKeys == {Esc, Enter, Char("q")}
SingleKeyEvent == KeyEventOf(SingleKeys, {Esc}, ContainerLists, FALSE)
NextSingle == SingleKeyEvent \/ Recv \/ Ticks \/ Ends
SpecSingle == Init /\ [][NextSingle]_vars

\* the loop under the scroll and pan keys, in Logs sessions with a stream
\* and in the search prompt
PanKeys == {Esc, Enter, Up, Down, Left, Right, Char("h"), Char("l"), Char("/")}
PanTyped == {Esc, Left, Up, Char("h")}
PanLists == {<<"id1", "id2">>}
PanKeyEvent == KeyEventOf(PanKeys, PanTyped, PanLists, FALSE)
NextPan == PanKeyEvent \/ RecvFirst \/ Ticks
SpecPan == Init /\ [][NextPan]_vars

\* the same loop with a container list that changes between two refreshes
\* (containers start and stop, the list call fails)
AllLists == {<<>>, <<"id1">>, <<"id1", "id2">>}
ListKeys == {Esc, Enter, Up, Down}
ListKeyEvent == KeyEventOf(ListKeys, TypedKeys, AllLists, FALSE)
NextLists == ListKeyEvent \/ Render \/ RecvFirst \/ Ticks
SpecLists == Init /\ [][NextLists]_vars

\* the Resources view. AppMode::Resources, stats_task, cpu_data, mem_data and
\* stream_stats are used by src/src/ui.rs (68-72, 113-116, 165-171) and
\* defined in no file of src/: the close of the view and the producer follow
\* the specification (4.2 Esc/q in Resources, 4.5 Stats Pipeline)
resources_input(a, r, key) ==
    IF key \in {Esc, Char("q")} THEN
        [app |-> [a EXCEPT !.mode = "Normal"],
         res |-> [r EXCEPT !.stats_task = None,
                           !.cpu_data = clear(@),
                           !.mem_data = clear(@),
                           !.stats = IF r.stats_task # None /\ @[r.stats_task[1]] = "running"
                                     THEN [@ EXCEPT ![r.stats_task[1]] = "aborted"]
                                     ELSE @]]
    ELSE [app |-> a, res |-> r]

\* one pass of the loop with a key event in Resources: the dispatch, then the
\* spawn of ui.rs:68-72 when the mode is Resources after it
ResourcesKey(key, container_data) ==
    /\ Live
    /\ app.mode = "Resources"
    /\ LET d == resources_input([app EXCEPT !.container_data = container_data], res, key) IN
       IF d.app.mode = "Resources"
       THEN IF BadIndex(d.app)
            THEN app' = d.app /\ res' = d.res /\ panicked' = TRUE
            ELSE /\ \E p \in StatIds : d.res.stats[p] # "running"
                 /\ LET p == CHOOSE q \in StatIds :
                               /\ d.res.stats[q] # "running"
                               /\ \A o \in StatIds : d.res.stats[o] # "running" => q <= o
                    IN res' = [d.res EXCEPT !.stats_task = Some(p), !.stats[p] = "running"]
                 /\ app' = d.app
                 /\ panicked' = panicked
       ELSE app' = d.app /\ res' = d.res /\ panicked' = panicked
    /\ last' = "other"
    /\ UNCHANGED <<sync, win, hist, tasks, running>>

\* a sample of the stats stream: each metric that can be computed is pushed
\* as (timestamp, percent), the other is skipped
StatsSample(p) ==
    /\ Live
    /\ res.stats[p] = "running"
    /\ res.samples < MaxAdds
    /\ \E cpu \in {None} \cup {Some(v) : v \in 1..2}, mem \in {None} \cup {Some(v) : v \in 1..2} :
         LET t == res.samples + 1 IN
         res' = [res EXCEPT !.samples = t,
                            !.cpu_data = IF cpu = None THEN @ ELSE add(@, <<t, cpu[1]>>),
                            !.mem_data = IF mem = None THEN @ ELSE add(@, <<t, mem[1]>>)]
    /\ last' = "other"
    /\ UNCHANGED <<sync, win, hist, app, tasks, running, panicked>>

\* the stats stream ends
StatsEnd(p) ==
    /\ Live
    /\ res.stats[p] = "running"
    /\ res' = [res EXCEPT !.stats[p] = "ended"]
    /\ last' = "other"
    /\ UNCHANGED <<sync, win, hist, app, tasks, running, panicked>>

\* the Resources view open on the one container, its stats task running
InitStats ==
    /\ app = [AppStateDefault EXCEPT !.container_data = <<"id1">>, !.mode = "Resources"]
    /\ res = [ResourcesDefault EXCEPT !.stats_task = Some(1), !.stats[1] = "running"]
    /\ tasks = [p \in TaskIds |-> NoTask]
    /\ running = TRUE
    /\ panicked = FALSE
    /\ last = "other"
    /\ sync = SyncDefault
    /\ win = new(1)
    /\ hist = <<>>
ResourcesKeys == {Esc, Char("q"), Char("j")}
ResourcesKeyEvent == \E key \in ResourcesKeys, cd \in ContainerLists : ResourcesKey(key, cd)
StatsSamples == \E p \in StatIds : StatsSample(p)
StatsEnds == \E p \in StatIds : StatsEnd(p)
NextStats == ResourcesKeyEvent \/ StatsSamples \/ StatsEnds
SpecStats == InitStats /\ [][NextStats]_vars

\* ------------------------------------------------------------------------
\* The loop and the producers at the lock: SharedState = Arc<RwLock<AppState>>
\* (src/src/app.rs:42). Every .await on the lock is a queued request (the
\* tokio lock serves its waiters first come first served), every guard's
\* lifetime a sequence of steps between the acquisition and the release.
\* ------------------------------------------------------------------------
\* the loop of start_ui among the users of the lock (the tasks are 1, 2, ...)
THE_LOOP == 0

\* app_state.read().await / app_state.write().await: the request is queued
request(s, who) == [s EXCEPT !.queue = Append(@, who)]

\* a write is granted without a look at who holds the lock
can_write_unchecked(s, who) == s.queue # <<>> /\ Head(s.queue) = who

\* the write guard is granted to the first waiter when nobody holds the lock
can_write(s, who) ==
    s.queue # <<>> /\ Head(s.queue) = who /\ s.writer = None /\ ~s.reading

\* the read guard is granted to the first waiter when no writer holds the lock
can_read(s, who) == s.queue # <<>> /\ Head(s.queue) = who /\ s.writer = None

granted_write(s, who) == [s EXCEPT !.queue = Tail(@), !.writer = Some(who)]
released_write(s) == [s EXCEPT !.writer = None]

RECURSIVE without(_, _)
without(q, who) ==
    IF q = <<>> THEN <<>>
    ELSE IF Head(q) = who THEN without(Tail(q), who)
    ELSE <<Head(q)>> \o without(Tail(q), who)

\* an abort that leaves the aborted task's request in the queue of the lock
cancel_leaves_waiter(s, handle) ==
    IF handle = None THEN s ELSE [s EXCEPT !.at[handle[1]] = Await]

\* JoinHandle::abort seen from the lock: the task is dropped at its await,
\* and with it its pending request
cancel(s, handle) ==
    IF handle = None THEN s
    ELSE [s EXCEPT !.at[handle[1]] = Await, !.queue = without(@, handle[1])]

\* flush_buffer line by line: docker.rs:121-123, 125-131, 133-139
flush_append(a, buffer) == [a EXCEPT !.logs = @ \o buffer]
flush_scroll(a, number_of_log_lines) ==
    IF ~a.user_scrolled
    THEN [a EXCEPT !.vertical_scroll =
                      IF number_of_log_lines > a.visible_height
                      THEN as_u16(number_of_log_lines - a.visible_height)
                      ELSE 0]
    ELSE a
flush_trim(a, number_of_log_lines, new_lines_since_cleanup) ==
    IF new_lines_since_cleanup >= CLEANUP_THRESHOLD /\ number_of_log_lines > MAX_LOG_LINES
    THEN [a EXCEPT !.logs = SubSeq(@, number_of_log_lines - MAX_LOG_LINES + 1, Len(@))]
    ELSE a

\* the loop asks for the read guard: ui.rs:40
LoopWantRead ==
    /\ Live /\ sync.loop = "render"
    /\ sync' = [request(sync, THE_LOOP) EXCEPT !.loop = "read_wait"]
    /\ last' = "other"
    /\ UNCHANGED <<res, win, hist, app, tasks, running, panicked>>

LoopRead ==
    /\ Live /\ sync.loop = "read_wait"
    /\ can_read(sync, THE_LOOP)
    /\ sync' = [sync EXCEPT !.queue = Tail(@), !.reading = TRUE, !.loop = "draw"]
    /\ last' = "other"
    /\ UNCHANGED <<res, win, hist, app, tasks, running, panicked>>

\* the draw and the end of the block that holds the read guard: ui.rs:41-47
LoopDraw ==
    /\ Live /\ sync.loop = "draw"
    /\ panicked' = (app.mode \in {"Logs", "Search"} /\ BadIndex(app))
    /\ sync' = [sync EXCEPT !.reading = FALSE, !.loop = "poll"]
    /\ last' = "other"
    /\ UNCHANGED <<res, win, hist, app, tasks, running>>

\* event::poll: no event within 200 ms, or an event and the request of the
\* write guard: ui.rs:49-50
LoopPoll ==
    /\ Live /\ sync.loop = "poll"
    /\ \/ sync' = [sync EXCEPT !.loop = "render"]
       \/ sync' = [request(sync, THE_LOOP) EXCEPT !.loop = "write_wait"]
    /\ last' = "other"
    /\ UNCHANGED <<res, win, hist, app, tasks, running, panicked>>

LoopWrite ==
    /\ Live /\ sync.loop = "write_wait"
    /\ can_write(sync, THE_LOOP)
    /\ sync' = [granted_write(sync, THE_LOOP) EXCEPT !.loop = "refresh"]
    /\ last' = "other"
    /\ UNCHANGED <<res, win, hist, app, tasks, running, panicked>>

\* the refresh of container_data under the write guard: ui.rs:51-52
LoopRefresh ==
    /\ Live /\ sync.loop = "refresh"
    /\ \E cd \in ContainerLists : app' = [app EXCEPT !.container_data = cd]
    /\ sync' = [sync EXCEPT !.loop = "input"]
    /\ last' = "other"
    /\ UNCHANGED <<res, win, hist, tasks, running, panicked>>

\* the event is read and dispatched, the guard dropped at the end of the
\* block: ui.rs:53-74; an event that is no key only drops the guard
LockKeys == {Esc, Enter, Up}
LoopInput ==
    /\ Live /\ sync.loop = "input"
    /\ \/ \E key \in LockKeys :
            /\ DispatchBody(key, app.container_data, FALSE)
            /\ sync' = [released_write(cancel(sync, handle_input(app, key).aborted))
                           EXCEPT !.loop = "render"]
       \/ /\ sync' = [released_write(sync) EXCEPT !.loop = "render"]
          /\ last' = "other"
          /\ UNCHANGED <<app, tasks, running, panicked>>
    /\ UNCHANGED <<res, win, hist>>

\* the task at its select!
AtSelect(p) == Live /\ tasks[p].st = "running" /\ sync.at[p].pc = "select"

\* Some(Ok(chunk)): no lock is asked for
LockRecv(p) == AtSelect(p) /\ RecvOf(p, {<<"a">>})

\* interval.tick() with lines in the buffer, or None: flush_buffer asks for
\* the write guard (docker.rs:120); with an empty buffer it returns at once
LockFlushWant(p) ==
    /\ AtSelect(p)
    /\ tasks[p].buffer # <<>>
    /\ \E fin \in BOOLEAN :
         sync' = [request(sync, p) EXCEPT !.at[p].pc = "flush_wait", !.at[p].fin = fin]
    /\ last' = "other"
    /\ UNCHANGED <<res, win, hist, app, tasks, running, panicked>>

\* None with an empty buffer: flush_buffer returns, the loop breaks
LockEnd(p) ==
    /\ AtSelect(p)
    /\ tasks[p].buffer = <<>>
    /\ tasks' = [tasks EXCEPT ![p] = Ended("finished")]
    /\ last' = "other"
    /\ UNCHANGED <<sync, res, win, hist, app, running, panicked>>

\* Some(Err(e)): the arm asks for the write guard (docker.rs:94)
LockErrorWant(p) ==
    /\ AtSelect(p)
    /\ Cardinality({i \in 1..Len(app.logs) : IsErrorLine(app.logs[i])}) < MaxErrors
    /\ sync' = [request(sync, p) EXCEPT !.at[p].pc = "error_wait"]
    /\ last' = "other"
    /\ UNCHANGED <<res, win, hist, app, tasks, running, panicked>>

\* the write guard is granted to the task; snap is a ghost: what the task
\* found when it got the guard
LockAcquire(p) ==
    /\ Live /\ tasks[p].st = "running"
    /\ sync.at[p].pc \in {"flush_wait", "error_wait"}
    /\ can_write(sync, p)
    /\ sync' = [granted_write(sync, p) EXCEPT
                   !.at[p].pc = IF sync.at[p].pc = "flush_wait" THEN "append" ELSE "push",
                   !.at[p].snap = Some([app |-> app, buffer |-> tasks[p].buffer,
                                        counter |-> tasks[p].new_lines_since_cleanup])]
    /\ last' = "other"
    /\ UNCHANGED <<res, win, hist, app, tasks, running, panicked>>

\* app.logs.append(buffer); let number_of_log_lines = app.logs.len()
LockAppend(p) ==
    /\ Live /\ tasks[p].st = "running" /\ sync.at[p].pc = "append"
    /\ app' = flush_append(app, tasks[p].buffer)
    /\ tasks' = [tasks EXCEPT ![p].buffer = <<>>]
    /\ sync' = [sync EXCEPT !.at[p].pc = "scroll",
                            !.at[p].n = Len(app.logs) + Len(tasks[p].buffer)]
    /\ last' = "other"
    /\ UNCHANGED <<res, win, hist, running, panicked>>

\* if !app.user_scrolled { app.vertical_scroll = ... }
LockScroll(p) ==
    /\ Live /\ tasks[p].st = "running" /\ sync.at[p].pc = "scroll"
    /\ app' = flush_scroll(app, sync.at[p].n)
    /\ sync' = [sync EXCEPT !.at[p].pc = "trim"]
    /\ last' = "other"
    /\ UNCHANGED <<res, win, hist, tasks, running, panicked>>

\* the cleanup, the return of flush_buffer (the guard is dropped) and, after
\* None, the break
LockTrim(p) ==
    /\ Live /\ tasks[p].st = "running" /\ sync.at[p].pc = "trim"
    /\ app' = flush_trim(app, sync.at[p].n, tasks[p].new_lines_since_cleanup)
    /\ tasks' = IF sync.at[p].fin
                THEN [tasks EXCEPT ![p] = Ended("finished")]
                ELSE [tasks EXCEPT ![p].new_lines_since_cleanup =
                                      IF @ >= CLEANUP_THRESHOLD THEN 0 ELSE @]
    /\ sync' = [released_write(sync) EXCEPT !.at[p] = Await]
    /\ last' = "other"
    /\ UNCHANGED <<res, win, hist, running, panicked>>

\* app.logs.push(format!("Error streaming logs: {e}")); the guard is dropped
\* at the end of the arm
LockPush(p) ==
    /\ Live /\ tasks[p].st = "running" /\ sync.at[p].pc = "push"
    /\ \E e \in ErrorMessages :
         app' = [app EXCEPT !.logs = Append(@, ERROR_PREFIX \o e)]
    /\ sync' = [released_write(sync) EXCEPT !.at[p] = Await]
    /\ last' = "other"
    /\ UNCHANGED <<res, win, hist, tasks, running, panicked>>

\* the steps a scheduled task takes by itself, and the arrivals of its stream:
\* the first session's stream delivers lines and errors, a later one is silent
TaskRuns(p) == LockAcquire(p) \/ LockAppend(p) \/ LockScroll(p) \/ LockTrim(p) \/ LockPush(p)
LoopRuns ==
    LoopWantRead \/ LoopRead \/ LoopDraw \/ LoopPoll \/ LoopWrite \/ LoopRefresh \/ LoopInput
LockRecvs == LockRecv(1)
LockFlushWants == \E p \in TaskIds : LockFlushWant(p)
LockEnds == \E p \in TaskIds : LockEnd(p)
LockErrorWants == LockErrorWant(1)
LockAcquires == \E p \in TaskIds : LockAcquire(p)
LockAppends == \E p \in TaskIds : LockAppend(p)
LockScrolls == \E p \in TaskIds : LockScroll(p)
LockTrims == \E p \in TaskIds : LockTrim(p)
LockPushes == \E p \in TaskIds : LockPush(p)
NextLock ==
    \/ LoopWantRead \/ LoopRead \/ LoopDraw \/ LoopPoll \/ LoopWrite
    \/ LoopRefresh \/ LoopInput
    \/ LockRecvs \/ LockFlushWants \/ LockEnds \/ LockErrorWants
    \/ LockAcquires \/ LockAppends \/ LockScrolls \/ LockTrims \/ LockPushes
SpecLock == Init /\ [][NextLock]_vars

\* the runtime schedules the loop and every task that can take a step; the
\* arrivals of the streams and of the events are not forced
LockFairness == WF_vars(LoopRuns) /\ \A p \in TaskIds : WF_vars(TaskRuns(p))
SpecLockFair == SpecLock /\ LockFairness

\* the same loop with the keys dispatched through the keybinding table
TableKeyEvent == KeyEventOf(LogKeys, TypedKeys, ContainerLists, TRUE)
NextTable == TableKeyEvent \/ Recv \/ Ticks \/ Ends
SpecTable == Init /\ [][NextTable]_vars

InitWin ==
    /\ \E c \in 1..MaxCap : win = new(c)
    /\ hist = <<>>
    /\ InitApp

\* one call of add; keys are the running sample number (a timestamp)
WinAdd ==
    /\ Len(hist) < MaxAdds
    /\ \E v \in 0..MaxVal :
         LET x == <<Len(hist) + 1, v>> IN
         /\ win' = add(win, x)
         /\ hist' = Append(hist, x)
    /\ UNCHANGED appVars

\* one call of clear; last remembers that a window holding pairs was cleared
WinClear ==
    /\ win' = clear(win)
    /\ hist' = <<>>
    /\ last' = IF win.data = <<>> THEN last ELSE "cleared"
    /\ UNCHANGED <<app, tasks, running, panicked, res, sync>>

NextWin == WinAdd \/ WinClear

SpecWin == InitWin /\ [][NextWin]_vars

\* ------------------------------------------------------------------------
\* Properties of the max-window (under SpecWin)
\* ------------------------------------------------------------------------
\* the last n elements of s
LastN(s, n) == SubSeq(s, Len(s) - n + 1, Len(s))
\* the values of the last min(count, C) pairs added
WindowValues == {p[2] : p \in {hist[i] : i \in (Len(hist) - Min(Len(hist), win.capacity) + 1)..Len(hist)}}
TrueMax(S) == CHOOSE m \in S : \A v \in S : v <= m

\* C1: after every add, get_max() is the true maximum of the values of the
\* last min(count, C) pairs added; with no stored pair get_max() is None.
C1_GetMaxIsWindowMax ==
    /\ win.data = <<>> => get_max(win) = None
    /\ hist # <<>> => get_max(win) = Some(TrueMax(WindowValues))

\* C1 witness: a tie: the pair just evicted carried the value that is still
\* the maximum, because a later equal copy survives in the window.
C1_TieSurvivesEviction ==
    /\ win.capacity >= 2
    /\ Len(hist) > win.capacity
    /\ get_max(win) = Some(hist[Len(hist) - win.capacity][2])
    /\ \E i \in 1..(Len(hist) - win.capacity) : hist[i][2] > hist[Len(hist)][2]

\* C2: after any adds and clears the number of stored pairs is at most C.
C2_LenAtMostCapacity == Len(win.data) <= win.capacity

\* C2 witness: more pairs were added than fit, and the window is full.
C2_FullAfterOverflow ==
    /\ Len(hist) > win.capacity
    /\ Len(win.data) = win.capacity

\* the maxima of the scenario of capacity 2; the values 10, 30, 12, 11 are
\* kept in their order as 0, 3, 2, 1
ScenarioValues == <<0, 3, 2, 1>>
ScenarioMaxima == <<0, 3, 3, 2>>
InScenario ==
    /\ win.capacity = 2
    /\ hist # <<>>
    /\ Len(hist) <= Len(ScenarioValues)
    /\ \A i \in 1..Len(hist) : hist[i][2] = ScenarioValues[i]

\* C3: data holds exactly the last min(n, C) pairs added, in insertion order
\* (an add on a full window evicts the oldest pair only); in the scenario of
\* capacity 2 the maxima are those of the table.
C3_DataIsLastPairs ==
    /\ win.data = LastN(hist, Min(Len(hist), win.capacity))
    /\ InScenario => get_max(win) = Some(ScenarioMaxima[Len(hist)])

\* C3 witness: the end of the scenario, two evictions done.
C3_ScenarioEnd ==
    /\ InScenario
    /\ Len(hist) = 4
    /\ win.data = <<<<3, 2>>, <<4, 1>>>>

\* ------------------------------------------------------------------------
\* Properties of the log producer (under Spec)
\* ------------------------------------------------------------------------
FlushTags == {"flush", "cleanup", "trim"}
\* a step in which producer p flushes a buffer that is not empty
FlushBy(p) == tasks[p].buffer # <<>> /\ (Tick(p) \/ StreamEnd(p))
\* the row that follows the tail
FollowRow(a) == Max(0, Len(a.logs) - a.visible_height)

C6_FollowsTailAfterFlush ==
    (last \in FlushTags /\ ~app.user_scrolled) => app.vertical_scroll = FollowRow(app)

\* C7: while user_scrolled is set (a manual scroll since the last G, see C8),
\* every flush of every producer, and every stream error, leaves
\* vertical_scroll and the flag as they are.
C7_FlushKeepsManualScroll ==
    [][\A p \in TaskIds :
          (app.user_scrolled /\ (FlushBy(p) \/ StreamError(p))) =>
             /\ app'.vertical_scroll = app.vertical_scroll
             /\ app'.user_scrolled]_vars

\* C7 witness: a flush has appended in the Logs view after a manual scroll,
\* and vertical_scroll is not the row that follows the tail.
C7_FlushedWhileScrolled ==
    /\ last \in FlushTags
    /\ app.mode = "Logs"
    /\ app.user_scrolled
    /\ app.vertical_scroll # FollowRow(app)

\* ------------------------------------------------------------------------
\* Properties of the keys (under Spec, SpecLatch and SpecSearch)
\* ------------------------------------------------------------------------
\* a step in which the loop dispatches the key through handle_input
Pressed(key) == \E cd \in ContainerLists : Dispatch(key, cd, FALSE)
ScrollKeys == {Up, Down, Char("k"), Char("j")}

\* C8: user_scrolled is a one-way latch: Up, Down, k and j in Logs set it;
\* G in Logs clears it; once set, every step that is not G in Logs (a key in
\* any of the four modes, a flush) leaves it set.
C8_UserScrolledLatch ==
    [][/\ \A key \in ScrollKeys : (app.mode = "Logs" /\ Pressed(key)) => app'.user_scrolled
       /\ (app.mode = "Logs" /\ Pressed(Char("G"))) => ~app'.user_scrolled
       /\ (app.user_scrolled /\ ~(app.mode = "Logs" /\ Pressed(Char("G"))))
             => app'.user_scrolled]_vars

\* C8 witness: the flag was set in the Logs view, the search prompt was
\* opened and typed into, and a flush has come in with the flag still set.
C8_LatchHeldInSearch ==
    /\ app.user_scrolled
    /\ app.mode = "Search"
    /\ app.search_query # <<>>
    /\ last \in FlushTags

\* C9 as stated: in Logs, Down and j set vertical_scroll to its value plus 1,
\* saturating at the largest u16, and Up and k to its value minus 1,
\* saturating at 0; by handle_input and by the actions of the bindings
\* "Scroll down" and "Scroll up" alike.
C9_ScrollKeysStepByOne ==
    app.mode = "Logs" =>
       /\ \A key \in {Down, Char("j")} :
             /\ handle_input(app, key).app.vertical_scroll = saturating_add(app.vertical_scroll, 1)
             /\ binding_action("Scroll down", app, key).app.vertical_scroll
                   = saturating_add(app.vertical_scroll, 1)
       /\ \A key \in {Up, Char("k")} :
             /\ handle_input(app, key).app.vertical_scroll = saturating_sub(app.vertical_scroll, 1)
             /\ binding_action("Scroll up", app, key).app.vertical_scroll
                   = saturating_sub(app.vertical_scroll, 1)

\* C10: in Search every character key appends its character to search_query
\* and changes nothing else (mode stays Search, no task is aborted, the loop
\* keeps running); a key that is no character and none of Backspace, Enter
\* and Esc changes nothing.
C10_SearchAbsorbsText ==
    [][app.mode = "Search" =>
         /\ \A key \in CharKeys :
               Pressed(key) => /\ app' = [app EXCEPT !.search_query = Append(@, key[2])]
                               /\ tasks' = tasks
                               /\ running' = running
         /\ \A key \in Keys \ (CharKeys \cup {Backspace, Enter, Esc}) :
               Pressed(key) => /\ app' = app
                               /\ tasks' = tasks
                               /\ running' = running]_vars

\* C10 witness: q and / were typed into the prompt while the log has lines.
C10_TypedQuitAndSlash ==
    /\ app.mode = "Search"
    /\ app.search_query = <<"q", "/">>
    /\ Len(app.logs) > 1

\* ------------------------------------------------------------------------
\* Properties of the modes and the selections
\* ------------------------------------------------------------------------
\* C11 as stated: Esc and q in Normal request the shutdown (the dispatch
\* yields Exit, the loop stops running) and change nothing else of the state.
C11_EscOrQInNormalExits ==
    [][\A key \in {Esc, Char("q")} :
          (app.mode = "Normal" /\ Pressed(key)) =>
             /\ ~running'
             /\ app' = app
             /\ tasks' = tasks]_vars

\* ------------------------------------------------------------------------
\* Properties of the search (under SpecFind)
\* ------------------------------------------------------------------------
\* the elements of a finite set of numbers as an ascending sequence
RECURSIVE Ascending(_)
Ascending(S) ==
    IF S = {} THEN <<>>
    ELSE LET least == CHOOSE x \in S : \A y \in S : x <= y IN
         <<least>> \o Ascending(S \ {least})
\* the indices (from 0) of the lines of a.logs that contain a.search_query
MatchSet(a) == {i \in 0..(Len(a.logs) - 1) : contains(a.logs[i + 1], a.search_query)}
ScenarioLogs == <<LOADING, <<"a", "a", "a">>, <<"b", "a", "b">>, <<"a", "b", "c">>>>
ScenarioQuery == <<"a", "b">>

\* C12: Enter in Search sets search_matches to the ascending indices of the
\* lines that contain search_query, current_match_index to Some(0) iff there
\* is one, vertical_scroll to the first of them if there is one and mode to
\* Logs; logs and search_query stay; in the scenario (the sentinel, aaa, bab,
\* abc and the query ab) the matches are the rows of bab and abc.
C12_EnterCollectsMatches ==
    [][(app.mode = "Search" /\ Pressed(Enter)) =>
          LET found == Ascending(MatchSet(app)) IN
          /\ app'.search_matches = found
          /\ app'.current_match_index = IF found = <<>> THEN None ELSE Some(0)
          /\ app'.vertical_scroll = IF found = <<>> THEN app.vertical_scroll ELSE found[1]
          /\ app'.mode = "Logs"
          /\ app'.logs = app.logs
          /\ app'.search_query = app.search_query
          /\ (app.logs = ScenarioLogs /\ app.search_query = ScenarioQuery) =>
                /\ app'.search_matches = <<2, 3>>
                /\ app'.current_match_index = Some(0)
                /\ app'.vertical_scroll = 2]_vars

\* C12 witness: the scenario after Enter.
C12_ScenarioSearched ==
    /\ app.mode = "Logs"
    /\ app.logs = ScenarioLogs
    /\ app.search_query = ScenarioQuery
    /\ app.search_matches = <<2, 3>>
    /\ app.current_match_index = Some(0)
    /\ app.vertical_scroll = 2

NextKey == Char("n")
PrevKey == Char("N")
\* the state after k presses of the key
RECURSIVE Presses(_, _, _)
Presses(a, key, k) == IF k = 0 THEN a ELSE Presses(handle_input(a, key).app, key, k - 1)
HasMatch(a) == a.current_match_index # None /\ a.search_matches # <<>>

\* C13: in Logs with current_match_index = Some(i) and m matches, n sets the
\* index to (i + 1) mod m and N to (i - 1) mod m, and vertical_scroll to the
\* match at the new index; N undoes n, n undoes N, m presses of n come back
\* to i; without an index or without matches n and N change nothing.
C13_NextPrevCycle ==
    app.mode = "Logs" =>
       LET m == Len(app.search_matches)
           next == handle_input(app, NextKey).app
           prev == handle_input(app, PrevKey).app
       IN IF HasMatch(app)
          THEN LET i == app.current_match_index[1] IN
               /\ next.current_match_index = Some((i + 1) % m)
               /\ next.vertical_scroll = app.search_matches[((i + 1) % m) + 1]
               /\ prev.current_match_index = Some((i + m - 1) % m)
               /\ prev.vertical_scroll = app.search_matches[((i + m - 1) % m) + 1]
               /\ handle_input(next, PrevKey).app.current_match_index = Some(i)
               /\ handle_input(prev, NextKey).app.current_match_index = Some(i)
               /\ Presses(app, NextKey, m).current_match_index = Some(i)
               /\ Presses(app, PrevKey, m).current_match_index = Some(i)
               /\ next = [app EXCEPT !.current_match_index = next.current_match_index,
                                     !.vertical_scroll = next.vertical_scroll]
               /\ prev = [app EXCEPT !.current_match_index = prev.current_match_index,
                                     !.vertical_scroll = prev.vertical_scroll]
          ELSE next = app /\ prev = app

\* C13 witness: three or more matches, and N has wrapped from the first
\* to the last of them.
C13_WrappedToLastMatch ==
    /\ app.mode = "Logs"
    /\ Len(app.search_matches) >= 3
    /\ app.current_match_index = Some(Len(app.search_matches) - 1)
    /\ app.vertical_scroll = app.search_matches[Len(app.search_matches)]
    /\ app.vertical_scroll # 0

\* C14: current_match_index is None or Some(i) with i < len(search_matches),
\* in every state.
C14_MatchIndexInRange ==
    app.current_match_index # None => app.current_match_index[1] < Len(app.search_matches)

\* C14 witness: a new Logs session is open, the matches and the index of the
\* search of the session before are still held, the index at the last match.
C14_IndexKeptAcrossSessions ==
    /\ app.mode = "Logs"
    /\ app.logs = <<LOADING>>
    /\ Len(app.search_matches) >= 2
    /\ app.current_match_index = Some(Len(app.search_matches) - 1)

\* C15: menu_selected < len(menu_items) in every state; in ContextMenu Up at
\* 0 gives the last index and Down at the last index gives 0, and
\* len(menu_items) Downs, or Ups, come back to the item they started from;
\* Enter in Normal opens the menu at item 0.
C15_MenuSelectionWraps ==
    /\ app.menu_selected < Len(menu_items)
    /\ app.mode = "ContextMenu" =>
          LET n == Len(menu_items)
              down == handle_input(app, Down).app
              up == handle_input(app, Up).app
          IN /\ down.menu_selected = (app.menu_selected + 1) % n
             /\ up.menu_selected = (app.menu_selected + n - 1) % n
             /\ down.mode = "ContextMenu" /\ up.mode = "ContextMenu"
             /\ Presses(app, Down, n) = app
             /\ Presses(app, Up, n) = app
    /\ app.mode = "Normal" =>
          LET opened == handle_input(app, Enter).app IN
          opened.mode = "ContextMenu" /\ opened.menu_selected = 0

\* C15 witness: the menu was closed at its last item and the list is shown;
\* the next Enter has a selection to reset.
C15_MenuClosedAtLastItem ==
    /\ app.mode = "Normal"
    /\ app.menu_selected = Len(menu_items) - 1

\* ------------------------------------------------------------------------
\* Properties of the container list and the tasks (under SpecLists and Spec)
\* ------------------------------------------------------------------------
\* C16 as stated: whenever container_data is not empty, selected is an index
\* into it, also after a refresh that returns a shorter list.
C16_SelectedInRange ==
    app.container_data # <<>> => app.selected < Len(app.container_data)

\* C17 as stated: with an empty container_data the loop does not fault on
\* container_data[selected], and confirming Logs starts no task.
C17_EmptyListIsHarmless ==
    app.container_data = <<>> =>
       /\ ~panicked
       /\ app.mode \in {"Logs", "Search"} => app.log_task = None

\* the producer tasks that are spawned and neither finished nor aborted
Alive == {p \in TaskIds : tasks[p].st = "running"}

\* C18 as stated: at most one log producer task is alive in every state.
C18_AtMostOneProducer == Cardinality(Alive) <= 1

\* the handle is held exactly in the Logs view and in its search prompt
HandleHeldInLogs == (app.log_task # None) <=> (app.mode \in {"Logs", "Search"})

\* Enter on "Show Logs" of the context menu
EntersLogs == app.mode = "ContextMenu" /\ app.menu_selected = 0 /\ Pressed(Enter)

\* a close key of the Logs view
LeavesLogs == app.mode = "Logs" /\ \E key \in {Esc, Char("q")} : Pressed(key)

\* C19: after a dispatch that enters Logs from the context menu the mode is
\* Logs, logs is the sentinel alone and log_task holds a running task; after
\* Esc or q in Logs the task of the handle is no longer running, log_task is
\* None and the mode is Normal; in every state log_task is Some exactly in
\* Logs and in Search.
C19_HandleFollowsLogsSession ==
    /\ []HandleHeldInLogs
    /\ [][/\ EntersLogs =>
               /\ app'.mode = "Logs"
               /\ app'.logs = <<LOADING>>
               /\ app'.log_task # None
               /\ tasks'[app'.log_task[1]].st = "running"
          /\ LeavesLogs =>
               /\ tasks'[app.log_task[1]].st # "running"
               /\ app'.log_task = None
               /\ app'.mode = "Normal"]_vars

\* a second session in its search prompt, the first session's task aborted
C19_SecondSessionSearching ==
    /\ app.mode = "Search"
    /\ app.log_task # None
    /\ tasks[app.log_task[1]].st = "running"
    /\ \E p \in TaskIds : tasks[p].st = "aborted"

\* C20 as stated: Esc in Search clears search_query and search_matches and
\* returns to the mode Search was opened from, which is Logs.
C20_EscClearsSearch ==
    [][app.mode = "Search" /\ Pressed(Esc) =>
          /\ app'.search_query = <<>>
          /\ app'.search_matches = <<>>
          /\ app'.mode = "Logs"]_vars

\* ------------------------------------------------------------------------
\* Properties of the mode transitions (under SpecSession and SpecLists)
\* ------------------------------------------------------------------------
\* C21 as stated: / in Logs or in Normal enters Search with an empty
\* search_query; / in ContextMenu changes nothing.
C21_SlashOpensSearch ==
    LET r == handle_input(app, Char("/")).app IN
    /\ app.mode \in {"Logs", "Normal"} => r.mode = "Search" /\ r.search_query = <<>>
    /\ app.mode = "ContextMenu" => r = app

\* C22 as stated: the context menu has three items; Enter on item 0 enters
\* Logs with the sentinel alone in logs, on item 1 enters Resources, on item 2
\* returns to Normal; from Normal on the first of two containers Down, Enter,
\* Up, Enter ends with selected == 1, menu_selected == 2 and mode Normal.
C22_EnterDispatchesOnMenuItem ==
    /\ Len(menu_items) = 3
    /\ app.mode = "ContextMenu" =>
          LET r == handle_input(app, Enter).app IN
          /\ app.menu_selected = 0 => r.mode = "Logs" /\ r.logs = <<LOADING>>
          /\ app.menu_selected = 1 => r.mode = "Resources"
          /\ app.menu_selected = 2 => r.mode = "Normal"
    /\ app.mode = "Normal" /\ Len(app.container_data) = 2 /\ app.selected = 0 =>
          LET down == handle_input(app, Down).app
              menu == handle_input(down, Enter).app
              up == handle_input(menu, Up).app
              r == handle_input(up, Enter).app
          IN r.selected = 1 /\ r.menu_selected = 2 /\ r.mode = "Normal"

\* ------------------------------------------------------------------------
\* Properties of the Resources view (under SpecStats)
\* ------------------------------------------------------------------------
\* C23 as stated: once Esc has closed the Resources view the mode is Normal,
\* stats_task is None and cpu_data and mem_data are empty, and they stay
\* empty: no stats sample is added to either window after the close.
C23_ClosedResourcesStayEmpty ==
    app.mode # "Resources" =>
       /\ app.mode = "Normal"
       /\ res.stats_task = None
       /\ res.cpu_data.data = <<>> /\ res.cpu_data.max_queue = <<>>
       /\ res.mem_data.data = <<>> /\ res.mem_data.max_queue = <<>>

\* ------------------------------------------------------------------------
\* Properties of the lock (under SpecLock and SpecLockFair)
\* ------------------------------------------------------------------------
\* the task holds the write guard: inside flush_buffer or the error arm
Holding(p) == sync.at[p].pc \in {"append", "scroll", "trim", "push"}

\* the loop holds a guard: the read guard at the draw, the write guard at the
\* refresh and at the dispatch
LoopHolds == sync.loop \in {"draw", "refresh", "input"}

\* C24: no draw and no dispatch happens while a task is inside a flush or an
\* error push, no two tasks are inside at once, and a flush that completes
\* leaves the state, the buffer and the counter flush_buffer computes from
\* what the task found when it got the guard: a racing flush and dispatch
\* are serialised.
C24_DispatchAndFlushAtomic ==
    /\ [](LoopHolds => \A p \in TaskIds : ~Holding(p))
    /\ [](\A p, q \in TaskIds : Holding(p) /\ Holding(q) => p = q)
    /\ [][\A p \in TaskIds : LockTrim(p) =>
            LET snap == sync.at[p].snap[1]
                f == flush_buffer(snap.buffer, snap.app, snap.counter)
            IN /\ app' = f.app
               /\ tasks'[p].st = "running" =>
                     /\ tasks'[p].buffer = f.buffer
                     /\ tasks'[p].new_lines_since_cleanup = f.new_lines_since_cleanup]_vars

\* a dispatch waits for the guard while a flush has appended and not yet
\* set the scroll
C24_DispatchWaitsForFlush ==
    /\ sync.loop = "write_wait"
    /\ \E p \in TaskIds : sync.at[p].pc = "scroll"

\* C25: a task holds the write guard only inside a flush or an error push,
\* never at its select! nor while it waits for the guard; the loop that asks
\* for a guard gets it, also after an abort issued under the write guard.
C25_ProducerHoldsLockOnlyInFlush ==
    /\ [](\A p \in TaskIds :
            /\ sync.writer = Some(p) <=> Holding(p)
            /\ Holding(p) => tasks[p].st = "running")
    /\ (sync.loop = "write_wait") ~> (sync.loop = "refresh")
    /\ (sync.loop = "read_wait") ~> (sync.loop = "draw")

\* the loop holds the write guard in Logs and the task of its handle waits
\* for the guard: a close key aborts a task that is queued at the lock
C25_AbortReachesWaitingTask ==
    /\ sync.loop = "input"
    /\ app.mode = "Logs"
    /\ app.log_task # None
    /\ sync.at[app.log_task[1]].pc = "flush_wait"

\* ------------------------------------------------------------------------
\* Properties of the stream's errors and of its end (under Spec)
\* ------------------------------------------------------------------------
\* C26: a stream error appends one line, "Error streaming logs: " and the
\* message, to logs, changes nothing else of the state, and leaves every task
\* as it was: the producer keeps running with its buffer and its counter.
C26_ErrorLineAndProducerGoesOn ==
    [][last' = "error" =>
          /\ \E e \in ErrorMessages : app'.logs = Append(app.logs, ERROR_PREFIX \o e)
          /\ app' = [app EXCEPT !.logs = app'.logs]
          /\ tasks' = tasks
          /\ \E p \in TaskIds : tasks'[p].st = "running"]_vars

\* the one task ever spawned has flushed a chunk after its error line
C26_LineFlushedAfterError ==
    /\ \A p \in TaskIds : p # 1 => tasks[p].st = "unused"
    /\ \E i \in 1..Len(app.logs) - 1 :
          IsErrorLine(app.logs[i]) /\ app.logs[i + 1] = <<"a">>

\* logs ends with the lines of buffer
EndsWith(logs, buffer) ==
    /\ Len(logs) >= Len(buffer)
    /\ SubSeq(logs, Len(logs) - Len(buffer) + 1, Len(logs)) = buffer

C28_ScrollStaysInRange ==
    /\ app.vertical_scroll \in 0..U16_MAX
    /\ app.horizontal_scroll \in 0..U16_MAX
    /\ app.selected \in Nat
    /\ \A key \in {Left, Char("h"), Right, Char("l")} :
          LET r == handle_input(app, key).app
              to == IF key \in {Left, Char("h")}
                    THEN Max(0, app.horizontal_scroll - H_STEP)
                    ELSE Min(U16_MAX, app.horizontal_scroll + H_STEP)
          IN IF app.mode = "Logs"
             THEN r = [app EXCEPT !.horizontal_scroll = to]
             ELSE r.horizontal_scroll = app.horizontal_scroll
    /\ \A key \in {Up, Char("k"), Down, Char("j")} :
          LET r == handle_input(app, key).app IN
          /\ r.vertical_scroll \in 0..U16_MAX
          /\ r.horizontal_scroll = app.horizontal_scroll
          /\ r.selected \in Nat
          /\ app.mode = "Normal" /\ app.selected = 0 /\ key \in {Up, Char("k")} =>
                r.selected = 0

\* the pan has stopped at the u16 maximum, the scroll at row 0 by Up
C28_PannedToTheMaximum ==
    /\ app.mode = "Logs"
    /\ app.horizontal_scroll = U16_MAX
    /\ app.vertical_scroll = 0
    /\ app.user_scrolled
    /\ Len(app.logs) > app.visible_height

\* ------------------------------------------------------------------------
\* Properties of the sentinel line and of the two dispatchers
\* ------------------------------------------------------------------------
\* C29 as stated: after a flush that delivers lines of the stream, logs holds
\* lines of the stream only: the sentinel "Loading logs..." is gone.
C29_SentinelOverwritten ==
    last \in FlushTags => \A i \in 1..Len(app.logs) : app.logs[i] # LOADING

\* C30 as stated: for every mode, every key and every state, the dispatch
\* over the keybinding table and AppState::handle_input give the same next
\* state, the same Continue/Exit result and the same aborted task.
C30_DispatchersAgree ==
    \A key \in Keys : table_dispatch(app, key) = handle_input(app, key)

\* ------------------------------------------------------------------------
\* Further properties of MaxSlidingWindow (under SpecWin)
\* ------------------------------------------------------------------------
\* q is s with some elements left out, the order kept
RECURSIVE IsSubsequence(_, _)
IsSubsequence(q, s) ==
    IF q = <<>> THEN TRUE
    ELSE IF s = <<>> THEN FALSE
    ELSE IF Head(q) = Head(s) THEN IsSubsequence(Tail(q), Tail(s))
    ELSE IsSubsequence(q, Tail(s))

\* the values of the stored pairs, oldest first
DataValues(w) == [i \in 1..Len(w.data) |-> w.data[i][2]]

\* C31: after any adds and clears max_queue is non-increasing from front to
\* back, is a subsequence of the values in data, is empty exactly when data
\* is empty, and its front is the maximum of the values in data.
C31_MaxQueueShape ==
    /\ \A i \in 1..(Len(win.max_queue) - 1) : win.max_queue[i] >= win.max_queue[i + 1]
    /\ IsSubsequence(win.max_queue, DataValues(win))
    /\ (win.max_queue = <<>>) <=> (win.data = <<>>)
    /\ win.data # <<>> =>
          /\ \A i \in 1..Len(win.data) : win.data[i][2] <= Head(win.max_queue)
          /\ \E i \in 1..Len(win.data) : win.data[i][2] = Head(win.max_queue)

\* after an eviction max_queue holds two equal values and fewer values than
\* data holds pairs
C31_TieKeptInMaxQueue ==
    /\ Len(hist) > win.capacity
    /\ Len(win.max_queue) >= 2
    /\ win.max_queue[1] = win.max_queue[2]
    /\ Len(win.max_queue) < Len(win.data)

\* the window that the adds of h make of w
RECURSIVE Replay(_, _)
Replay(w, h) == IF h = <<>> THEN w ELSE Replay(add(w, Head(h)), Tail(h))

\* C32: clear() empties both deques, so get_max() is None right after it;
\* it leaves the capacity alone, and the adds that follow a clear give the
\* window that the same adds give on a freshly constructed window of the
\* same capacity (hist holds the adds since construction or the last clear).
C32_ClearedIsFresh ==
    /\ [](/\ win = Replay(new(win.capacity), hist)
          /\ hist = <<>> => win.data = <<>> /\ win.max_queue = <<>> /\ get_max(win) = None)
    /\ [][win'.capacity = win.capacity]_vars

\* a window that held pairs was cleared and has been filled beyond its
\* capacity since
C32_RefilledAfterClear ==
    /\ last = "cleared"
    /\ Len(hist) > win.capacity
    /\ win.capacity >= 2
    /\ get_max(win) # None

\* ------------------------------------------------------------------------
\* Further properties of the producer (under Spec)
\* ------------------------------------------------------------------------
\* C33: a flush of a buffer that is not empty which finds the counter at
\* CLEANUP_THRESHOLD or above drops exactly the oldest len - MAX_LOG_LINES
\* lines when logs with the buffer appended is longer than MAX_LOG_LINES,
\* keeping the newest MAX_LOG_LINES in order, and drops nothing otherwise; it
\* resets the counter to 0 in both cases.  A flush that finds the counter
\* below the threshold drops nothing and leaves the counter as it is.
C33_TrimDropsOldestAtThreshold ==
    [][\A p \in TaskIds :
          FlushBy(p) =>
             LET appended == app.logs \o tasks[p].buffer
                 counter == tasks[p].new_lines_since_cleanup
                 goes_on == tasks'[p].st = "running"
             IN IF counter >= CLEANUP_THRESHOLD
                THEN /\ app'.logs = IF Len(appended) > MAX_LOG_LINES
                                    THEN LastN(appended, MAX_LOG_LINES)
                                    ELSE appended
                     /\ goes_on => tasks'[p].new_lines_since_cleanup = 0
                ELSE /\ app'.logs = appended
                     /\ goes_on => tasks'[p].new_lines_since_cleanup = counter]_vars

\* a flush has dropped the loading line and more: logs holds MAX_LOG_LINES
\* lines of the stream, and the counter of the running producer is 0
C33_OldestLinesDropped ==
    /\ last = "trim"
    /\ Len(app.logs) = MAX_LOG_LINES
    /\ \A i \in 1..Len(app.logs) : app.logs[i] # LOADING
    /\ \E p \in TaskIds :
          /\ tasks[p].st = "running"
          /\ tasks[p].buffer = <<>>
          /\ tasks[p].new_lines_since_cleanup = 0

\* the state is as G leaves it in the Logs view
AsGLeavesIt(a) ==
    /\ a.mode = "Logs"
    /\ ~a.user_scrolled
    /\ a.vertical_scroll = handle_input(a, Char("G")).app.vertical_scroll

\* what G does in every reachable state
C34_GJumpsToLatest ==
    LET r == handle_input(app, Char("G")).app IN
    /\ app.mode = "Logs" =>
          /\ r.vertical_scroll = Max(0, Len(app.logs) - TAIL_ROWS)
          /\ ~r.user_scrolled
    /\ app.mode \in {"Normal", "ContextMenu"} =>
          /\ r.vertical_scroll = app.vertical_scroll
          /\ r.user_scrolled = app.user_scrolled

\* C34 as stated: G in Logs sets vertical_scroll to max(0, len(logs) -
\* TAIL_ROWS) and clears user_scrolled, and the next flush of a buffer that is
\* not empty then leaves vertical_scroll on the row that follows the tail; G
\* in Normal or ContextMenu changes neither field.
C34_GRepinsNextFlush ==
    /\ []C34_GJumpsToLatest
    /\ [][\A p \in TaskIds :
             (AsGLeavesIt(app) /\ FlushBy(p)) =>
                app'.vertical_scroll = FollowRow(app')]_vars

\* C35: with one producer at a time and no stream errors (SpecSingle), every
\* flush of a buffer that is not empty leaves len(logs) <= MAX_LOG_LINES +
\* CLEANUP_THRESHOLD - 1: it leaves the counter of the producer below
\* CLEANUP_THRESHOLD, and logs holds at most MAX_LOG_LINES lines more than
\* the counter counts.
C35_LogsBoundedAfterFlush ==
    last \in FlushTags =>
       /\ Len(app.logs) <= MAX_LOG_LINES + CLEANUP_THRESHOLD - 1
       /\ \A p \in TaskIds :
             tasks[p].st = "running" =>
                /\ tasks[p].new_lines_since_cleanup < CLEANUP_THRESHOLD
                /\ Len(app.logs) <= MAX_LOG_LINES + tasks[p].new_lines_since_cleanup

\* the bound is met: a flush below the threshold has left MAX_LOG_LINES +
\* CLEANUP_THRESHOLD - 1 lines, and one producer is running
C35_BoundMet ==
    /\ last = "flush"
    /\ Len(app.logs) = MAX_LOG_LINES + CLEANUP_THRESHOLD - 1
    /\ Cardinality({p \in TaskIds : tasks[p].st = "running"}) = 1
    /\ \A i \in 1..Len(app.logs) : ~IsErrorLine(app.logs[i])

\* ------------------------------------------------------------------------
\* Further properties of the search (under SpecSession and SpecLatch)
\* ------------------------------------------------------------------------
\* C36 as stated: in every reachable state every element of search_matches
\* is an index into logs (less than len(logs)), also after a trim and after a
\* new session has put the loading line alone into logs; so n and N in Logs
\* leave vertical_scroll on a line that exists when they move it.
C36_MatchesAreValidIndices ==
    /\ \A i \in 1..Len(app.search_matches) : app.search_matches[i] < Len(app.logs)
    /\ \A key \in {Char("n"), Char("N")} :
          (/\ app.mode = "Logs"
           /\ app.current_match_index # None
           /\ app.search_matches # <<>>) =>
             handle_input(app, key).app.vertical_scroll < Len(app.logs)

\* the viewport is on the current match, as Enter in Search, n and N leave it
OnCurrentMatch(a) ==
    /\ a.mode = "Logs"
    /\ a.current_match_index # None
    /\ a.search_matches # <<>>
    /\ a.vertical_scroll = as_u16(a.search_matches[a.current_match_index[1] + 1])

\* C37 as stated: once the viewport is on a search match, a flush leaves
\* vertical_scroll on the line of that match.
C37_FlushKeepsMatchInView ==
    [][\A p \in TaskIds :
          (OnCurrentMatch(app) /\ FlushBy(p)) =>
             app'.vertical_scroll = app.vertical_scroll]_vars

\* ------------------------------------------------------------------------
\* Further properties of the producers and the sessions (under Spec)
\* ------------------------------------------------------------------------
\* a step of producer p that takes the write lock
ProducerStep(p) == Tick(p) \/ StreamEnd(p) \/ StreamError(p)

\* C38 as stated: from the key that leaves the Logs view (the handle taken
\* and the task aborted) to the start of the next session, no step of a
\* producer changes logs or vertical_scroll.
C38_NoWriteOutsideSession ==
    [][\A p \in TaskIds :
          (/\ app.mode \in {"Normal", "ContextMenu"}
           /\ app.log_task = None
           /\ ProducerStep(p)) =>
             /\ app'.logs = app.logs
             /\ app'.vertical_scroll = app.vertical_scroll]_vars

\* C39 as stated: logs keeps the order in which the stream delivered its
\* events.  Stated on the step where it shows: one producer was ever
\* spawned, its stream error has just been pushed (last = "error") while
\* chunks delivered before the error were waiting in its buffer, and the
\* producer flushes; the lines of the buffer are then not behind the error
\* line in logs.
C39_ArrivalOrderKept ==
    [][(/\ last = "error"
        /\ \A p \in TaskIds : p # 1 => tasks[p].st = "unused"
        /\ FlushBy(1)) =>
          LET n == Len(app'.logs)
              k == Len(tasks[1].buffer)
          IN ~(/\ n > k
               /\ EndsWith(app'.logs, tasks[1].buffer)
               /\ IsErrorLine(app'.logs[n - k]))]_vars

\* C40: a flush, by a tick or by the end of the stream, changes no field of
\* the shared state but logs and vertical_scroll, and does not stop the loop;
\* a tick that finds the buffer empty changes nothing of the shared state
\* and leaves the counter of the producer as it is.
C40_FlushWritesLogsAndScrollOnly ==
    [][\A p \in TaskIds :
          /\ (Tick(p) \/ StreamEnd(p)) =>
                /\ app' = [app EXCEPT !.logs = app'.logs,
                                      !.vertical_scroll = app'.vertical_scroll]
                /\ running' = running
          /\ (tasks[p].buffer = <<>> /\ Tick(p)) =>
                /\ app' = app
                /\ tasks'[p].new_lines_since_cleanup = tasks[p].new_lines_since_cleanup
          /\ (tasks[p].buffer = <<>> /\ StreamEnd(p)) => app' = app]_vars

\* a flush has appended while the search prompt was open in a session that
\* holds a query, matches and a handle, and the producer's counter is not 0
C40_FlushedUnderOpenPrompt ==
    /\ last \in FlushTags
    /\ app.mode = "Search"
    /\ app.search_query # <<>>
    /\ app.search_matches # <<>>
    /\ app.current_match_index # None
    /\ app.log_task # None
    /\ \E p \in TaskIds :
          tasks[p].st = "running" /\ tasks[p].new_lines_since_cleanup > 0

====
